---------------------------- MODULE Spec2Model ----------------------------
(***************************************************************************)
(* Alumnium server: the session registry (SessionManager), the per-session *)
(* agents with their token accounting (Session, BaseAgent and the six      *)
(* agents) and the HTTP control plane (server/main.py), together with the  *)
(* in-process NativeClient that drives the same Session objects.           *)
(***************************************************************************)
EXTENDS Integers, Sequences, FiniteSets, TLC

(***************************************************************************)
(* Bounds of the model.                                                    *)
(***************************************************************************)
\* number of ids uuid4 can hand out in one run
MaxSessions == 2
\* number of requests and client calls that invoke a chain in one run
MaxCalls == 2
\* number of learned examples a planner holds at a time
MaxExamples == 2

Ids == 1..MaxSessions

VARIABLES
    current,    \* Model.current.provider, resolved once at startup
    native,     \* NativeClient.session: the session of the in-process client
    sessions,   \* session_manager.sessions of the server: id -> Session
    order,      \* insertion order of the keys of SessionManager.sessions
    created,    \* history: ids returned by create_session so far
    deleted,    \* history: ids for which delete_session returned True
    calls,      \* history: number of requests and calls so far that invoked
                \* a chain
    req,        \* the request or client call handled last
    resp,       \* its response: status, error envelope, body, and what it used
    driver,     \* the driver of the client library: the page it shows
    area,       \* the tree the Area object of the library holds, if any
    trace,      \* history: what the last do call did, in order
    loop        \* the event loop of the server: the requests it accepted
                \* and has not finished, and those it finished, in order

\* the variables of the client library
library == <<driver, area, trace>>

vars ==
    <<current, native, sessions, order, created, deleted, calls, req, resp,
      driver, area, trace, loop>>

(***************************************************************************)
(* Token usage: BaseAgent.usage, cache.usage, usage_metadata.              *)
(***************************************************************************)
Counters == {"input_tokens", "output_tokens", "total_tokens"}

ZeroUsage == [input_tokens |-> 0, output_tokens |-> 0, total_tokens |-> 0]

AddUsage(a, b) ==
    [input_tokens  |-> a.input_tokens + b.input_tokens,
     output_tokens |-> a.output_tokens + b.output_tokens,
     total_tokens  |-> a.total_tokens + b.total_tokens]

\* usage_metadata values a provider reports for one call
UsageMetadata ==
    {[input_tokens |-> 2, output_tokens |-> 1, total_tokens |-> 3],
     [input_tokens |-> 1, output_tokens |-> 2, total_tokens |-> 3]}

Agents == {"planner", "actor", "retriever", "area", "locator", "changes_analyzer"}


(***************************************************************************)
(* Texts the code inspects character by character are sequences of         *)
(* characters; all other texts are strings.                                *)
(***************************************************************************)
Whitespace == {" ", "\t", "\n"}

RECURSIVE lstrip(_)
lstrip(t) ==
    IF t # <<>> /\ Head(t) \in Whitespace THEN lstrip(Tail(t)) ELSE t

RECURSIVE rstrip(_)
rstrip(t) ==
    IF t # <<>> /\ t[Len(t)] \in Whitespace
    THEN rstrip(SubSeq(t, 1, Len(t) - 1))
    ELSE t

\* str.strip()
strip(t) == rstrip(lstrip(t))

(***************************************************************************)
(* Accessibility trees (server/accessibility), after the design document,  *)
(* section 4.1: a processed tree is the canonical XML shown to the model,  *)
(* the XML without ids, and the map from opaque ids 1..N (document order)  *)
(* to the driver's raw ids.  A raw id is a string or an integer of the      *)
(* driver: an integer is written as its numeral, and the strings of the    *)
(* trees below are no numerals.                                            *)
(***************************************************************************)
RawTrees == {"treeA", "treeB", "malformed"}

\* the raw ids that are integers
Numerals == {"16", "17"}

NoTree == [xml |-> "", shape |-> "", ids |-> <<>>]

ServerAccessibilityTree(raw) ==
    CASE raw = "treeA" ->
            [xml   |-> "<button id=1/><input id=2/>",
             shape |-> "<button/><input/>",
             ids   |-> <<"btn-submit", "input-name">>]
      [] raw = "treeB" ->
            [xml   |-> "<input id=1/><button id=2/><link id=3/>",
             shape |-> "<input/><button/><link/>",
             ids   |-> <<"input-name", "btn-submit", "link-home">>]
      [] raw = "treeN" ->
            [xml   |-> "<form id=1/><main id=2/>",
             shape |-> "<form/><main/>",
             ids   |-> <<"16", "17">>]
      [] OTHER -> NoTree

\* the tree constructors raise on text they cannot parse
Parses(raw) == raw \in {"treeA", "treeB", "treeN"}

to_xml(tree) == tree.xml

to_xml_exclude_id(tree) == tree.shape

\* get_raw_id raises on an opaque id the tree does not map
Maps(tree, id) == id \in DOMAIN tree.ids

get_raw_id(tree, id) == tree.ids[id]

\* a tool call is [tool, id, text]: args.id is the one id-typed field
map_tool_calls_to_raw_id(tree, actions) ==
    [i \in DOMAIN actions |->
        [tool |-> actions[i].tool,
         id   |-> get_raw_id(tree, actions[i].id),
         text |-> actions[i].text]]

AllMapped(tree, actions) ==
    \A i \in DOMAIN actions : Maps(tree, actions[i].id)

\* AccessibilityTreeDiff(before, after).compute()
compute_diff(before, after) ==
    IF before = after THEN "" ELSE before \o " => " \o after

(***************************************************************************)
(* Session.process_tree                                                    *)
(***************************************************************************)
\* process_tree that takes a platform it does not know for chromium
process_tree_any_platform(s, raw) ==
    IF Parses(raw)
    THEN [ok |-> TRUE, tree |-> ServerAccessibilityTree(raw), error |-> ""]
    ELSE [ok |-> FALSE, tree |-> NoTree, error |-> "ParseError"]

process_tree(s, raw) ==
    IF s.platform \in {"chromium", "xcuitest", "uiautomator2"}
    THEN IF Parses(raw)
         THEN [ok |-> TRUE, tree |-> ServerAccessibilityTree(raw), error |-> ""]
         ELSE [ok |-> FALSE, tree |-> NoTree, error |-> "ParseError"]
    ELSE [ok |-> FALSE, tree |-> NoTree,
          error |-> "Unknown platform: " \o s.platform]


(***************************************************************************)
(* The session's cache and the LLM handle bound to it (Session.__init__:   *)
(* self.llm.cache = self.cache).  After the design document, section 4.2:  *)
(* a cache maps a prompt to the response stored for it with the token      *)
(* counts recorded for that response, counts the tokens of served hits in  *)
(* its own usage, and a response served from the cache carries no          *)
(* usage_metadata of its own.                                              *)
(***************************************************************************)
EmptyCache ==
    [usage |-> ZeroUsage, entries |-> [k \in {} |-> 0], committed |-> {}]

NoOutput ==
    [explanation |-> "", steps |-> <<>>, tool_calls |-> <<>>,
     value |-> <<>>, id |-> 0, content |-> <<>>]

\* chain.invoke(*args), one attempt: the provider's outcome `fresh` of this
\* attempt is used on a miss only
chain_invoke(cache, key, fresh) ==
    IF key \in DOMAIN cache.entries
    THEN [raised  |-> FALSE,
          error   |-> "",
          hit     |-> TRUE,
          message |-> [out            |-> cache.entries[key].out,
                       has_usage      |-> FALSE,
                       usage_metadata |-> ZeroUsage],
          cache   |-> [cache EXCEPT
                          !.usage = AddUsage(@, cache.entries[key].usage)]]
    ELSE IF fresh.fail
    THEN [raised  |-> TRUE,
          error   |-> fresh.error,
          hit     |-> FALSE,
          message |-> [out |-> NoOutput, has_usage |-> FALSE,
                       usage_metadata |-> ZeroUsage],
          cache   |-> cache]
    ELSE [raised  |-> FALSE,
          error   |-> "",
          hit     |-> FALSE,
          message |-> [out            |-> fresh.out,
                       has_usage      |-> TRUE,
                       usage_metadata |-> fresh.usage_metadata],
          cache   |-> [cache EXCEPT
                          !.entries = @ @@ (key :> [out   |-> fresh.out,
                                                    usage |-> fresh.usage_metadata])]]

\* cache.save(): flush to the backing store
cache_save(cache) == [cache EXCEPT !.committed = DOMAIN cache.entries]

\* cache.discard(): drop the entries not yet saved
cache_discard(cache) ==
    [cache EXCEPT !.entries = [k \in cache.committed |-> cache.entries[k]]]

(***************************************************************************)
(* Session.__init__ and BaseAgent.__init__                                 *)
(***************************************************************************)
\* llm=None, and the chat models a caller can hand to create_session
None == "None"
Handles == {"llmA", "llmB"}

\* Session.__init__ whose planner starts with tokens on its counters
Session_init_counting(model, platform, planner, llm) ==
    [model    |-> model,
     platform |-> platform,
     planner  |-> planner,
     cache    |-> EmptyCache,
     llm      |-> [handle |-> IF llm = None THEN "create_llm" ELSE llm,
                   cache  |-> <<>>],
     usage    |-> [a \in Agents |->
                      IF a = "planner"
                      THEN [input_tokens |-> 1, output_tokens |-> 0,
                            total_tokens |-> 1]
                      ELSE ZeroUsage],
     examples |-> <<>>]

\* Session.__init__.  The session makes its own cache and binds it to the
\* handle it uses: the handle the caller supplied, or one made for it by
\* the LLMFactory.  llm.cache is the session whose cache the handle is
\* bound to: <<>> for this session, <<k>> for session k.  All six agents
\* are constructed with the handle.  `model` is the provider of the Model
\* the session was created for.
Session_init(model, platform, planner, llm) ==
    [model    |-> model,
     platform |-> platform,
     planner  |-> planner,
     cache    |-> EmptyCache,
     llm      |-> [handle |-> IF llm = None THEN "create_llm" ELSE llm,
                   cache  |-> <<>>],
     usage    |-> [a \in Agents |-> ZeroUsage],
     examples |-> <<>>]

\* a session of the provider anthropic created without llm
Session(platform, planner) ==
    Session_init("anthropic", platform, planner, None)

\* _update_usage that stores the usage of the call in place of the sum
_update_usage_replacing(usage, usage_metadata) == usage_metadata

\* BaseAgent._update_usage
_update_usage(usage, usage_metadata) == AddUsage(usage, usage_metadata)

\* the prompt an agent sends, which is the key of the cache
Prompt(agent, text, step, xml, extra, examples) ==
    [agent |-> agent, text |-> text, step |-> step, xml |-> xml,
     extra |-> extra, examples |-> examples]

\* what one agent call did with the chain: whether it invoked it, with which
\* prompt, whether the cache served it, and the usage it reported
NoCall ==
    [chained |-> FALSE, hit |-> FALSE,
     prompt |-> Prompt("", <<>>, <<>>, "", "", <<>>), usage |-> ZeroUsage,
     attempts |-> 0, slept |-> <<>>, failed |-> <<>>, error |-> ""]

(***************************************************************************)
(* The retry policy of BaseAgent._invoke_chain:                            *)
(* @retry(tries=8, delay=1, backoff=2, on_exception=_should_raise).        *)
(***************************************************************************)
tries == 8
delay == 1
backoff == 2

\* the errors _should_raise answers False for: rate limits, throttling and
\* the OpenAI-class internal server error
Transient == {"RateLimitError", "ThrottlingException", "InternalServerError"}

\* _should_raise that raises on no error
_should_raise_never(error) == FALSE

\* _should_raise that raises on every error
_should_raise_always(error) == TRUE

\* TRUE when the error is raised on, FALSE when the call is tried again
_should_raise(error) == error \notin Transient

\* the outcome of the n-th attempt of a call the provider answers `fresh`:
\* the attempts fail with the errors of fresh.errors, in order, and the
\* attempt after them gets the answer
Attempt(fresh, n) ==
    [fail  |-> n \in DOMAIN fresh.errors,
     error |-> IF n \in DOMAIN fresh.errors THEN fresh.errors[n] ELSE "",
     out   |-> fresh.out,
     usage_metadata |-> fresh.usage_metadata]

\* retry: call, and on an error that is to be retried count the try, give
\* up when none is left, else sleep _delay, multiply it by backoff and call
\* again; `slept` is the delays slept so far, and `failed` in the outcome
\* is the errors of the attempts that were tried again
RECURSIVE retry_internal(_, _, _, _, _, _)
RECURSIVE retry_after(_, _, _, _, _, _, _)
\* what retry does with the outcome r of one call
retry_after(r, cache, key, fresh, _tries, _delay, slept) ==
    IF r.raised /\ ~_should_raise(r.error) /\ _tries - 1 # 0
    THEN retry_internal(cache, key, fresh, _tries - 1, _delay * backoff,
                        Append(slept, _delay))
    ELSE [raised |-> r.raised, error |-> r.error, hit |-> r.hit,
          message |-> r.message, cache |-> r.cache,
          attempts |-> Len(slept) + 1, slept |-> slept,
          failed |-> [n \in 1..Len(slept) |-> Attempt(fresh, n).error]]

retry_internal(cache, key, fresh, _tries, _delay, slept) ==
    retry_after(chain_invoke(cache, key, Attempt(fresh, Len(slept) + 1)),
                cache, key, fresh, _tries, _delay, slept)

\* _invoke_chain that counts the usage recorded with a cached answer as
\* usage of the agent
_invoke_chain_counting_hits(s, agent, key, fresh) ==
    LET r == retry_internal(s.cache, key, fresh, tries, delay, <<>>) IN
    IF r.raised
    THEN [raised |-> TRUE, session |-> s, out |-> NoOutput,
          error |-> r.error,
          call |-> [chained |-> TRUE, hit |-> FALSE, prompt |-> key,
                    usage |-> ZeroUsage, attempts |-> r.attempts,
                    slept |-> r.slept, failed |-> r.failed,
                    error |-> r.error]]
    ELSE [raised  |-> FALSE,
          session |-> [s EXCEPT
                         !.cache = r.cache,
                         !.usage[agent] =
                             IF r.hit
                             THEN _update_usage(@, s.cache.entries[key].usage)
                             ELSE _update_usage(@, r.message.usage_metadata)],
          out     |-> r.message.out,
          error   |-> "",
          call    |-> [chained |-> TRUE, hit |-> r.hit, prompt |-> key,
                       usage |-> r.message.usage_metadata,
                       attempts |-> r.attempts, slept |-> r.slept,
                       failed |-> r.failed, error |-> ""]]

\* the Response _invoke_chain makes of the outcome r of the retried call,
\* with the usage added to the agent's
Response(s, agent, key, r) ==
    IF r.raised
    THEN [raised |-> TRUE, session |-> s, out |-> NoOutput,
          error |-> r.error,
          call |-> [chained |-> TRUE, hit |-> FALSE, prompt |-> key,
                    usage |-> ZeroUsage, attempts |-> r.attempts,
                    slept |-> r.slept, failed |-> r.failed,
                    error |-> r.error]]
    ELSE [raised  |-> FALSE,
          session |-> [s EXCEPT
                         !.cache = r.cache,
                         !.usage[agent] =
                             IF r.message.has_usage
                             THEN _update_usage(@, r.message.usage_metadata)
                             ELSE @],
          out     |-> r.message.out,
          error   |-> "",
          call    |-> [chained |-> TRUE, hit |-> r.hit, prompt |-> key,
                       usage |-> IF r.message.has_usage
                                 THEN r.message.usage_metadata
                                 ELSE ZeroUsage,
                       attempts |-> r.attempts, slept |-> r.slept,
                       failed |-> r.failed, error |-> ""]]

\* BaseAgent._invoke_chain, as one call that returns a Response or raises
_invoke_chain(s, agent, key, fresh) ==
    Response(s, agent, key,
             retry_internal(s.cache, key, fresh, tries, delay, <<>>))

(***************************************************************************)
(* String helpers of the agents.  The separator "<SEP>" is the unit "<SEP" *)
(* followed by the character ">", so that a near-miss separator is "<SEP"  *)
(* followed by another character.                                          *)
(***************************************************************************)
LIST_SEPARATOR == <<"<SEP", ">">>

removeprefix(t, p) ==
    IF Len(t) >= Len(p) /\ SubSeq(t, 1, Len(p)) = p
    THEN SubSeq(t, Len(p) + 1, Len(t))
    ELSE t

removesuffix(t, p) ==
    IF Len(t) >= Len(p) /\ SubSeq(t, Len(t) - Len(p) + 1, Len(t)) = p
    THEN SubSeq(t, 1, Len(t) - Len(p))
    ELSE t

\* re.sub(rf"{LIST_SEPARATOR[:-1]}.", LIST_SEPARATOR, value): "." is any
\* character but a newline
RECURSIVE sub_near_separator(_)
sub_near_separator(t) ==
    IF t = <<>> THEN <<>>
    ELSE IF Len(t) >= 2 /\ t[1] = "<SEP" /\ t[2] # "\n"
    THEN LIST_SEPARATOR \o sub_near_separator(SubSeq(t, 3, Len(t)))
    ELSE <<t[1]>> \o sub_near_separator(Tail(t))

RECURSIVE contains(_, _)
contains(t, p) ==
    /\ Len(t) >= Len(p)
    /\ \/ SubSeq(t, 1, Len(p)) = p
       \/ contains(Tail(t), p)

\* str.split(p): the pieces between the occurrences of p, scanned left to right
RECURSIVE split_from(_, _, _)
split_from(t, p, piece) ==
    IF t = <<>> THEN <<piece>>
    ELSE IF Len(t) >= Len(p) /\ SubSeq(t, 1, Len(p)) = p
    THEN <<piece>> \o split_from(SubSeq(t, Len(p) + 1, Len(t)), p, <<>>)
    ELSE split_from(Tail(t), p, Append(piece, Head(t)))

split(t, p) == split_from(t, p, <<>>)

RECURSIVE join(_, _)
join(parts, sep) ==
    IF parts = <<>> THEN ""
    ELSE IF Len(parts) = 1 THEN parts[1]
    ELSE parts[1] \o sep \o join(Tail(parts), sep)

\* sep.join(texts) for texts that are sequences of characters
RECURSIVE join_texts(_, _)
join_texts(parts, sep) ==
    IF parts = <<>> THEN <<>>
    ELSE IF Len(parts) = 1 THEN parts[1]
    ELSE parts[1] \o sep \o join_texts(Tail(parts), sep)

Upper(c) ==
    CASE c = "n" -> "N" [] c = "o" -> "O" [] c = "p" -> "P" [] OTHER -> c

upper(t) == [i \in DOMAIN t |-> Upper(t[i])]

(***************************************************************************)
(* The agents.  Each invoke returns whether it raised, the session after   *)
(* the call, whether the chain was invoked, and the agent's result.        *)
(***************************************************************************)
UNSTRUCTURED_OUTPUT_MODELS == {"ollama"}

Returned(s, call, out) ==
    [raised |-> FALSE, error |-> "", session |-> s, call |-> call,
     out |-> out]

Raised(s, error, call) ==
    [raised |-> TRUE, error |-> error, session |-> s, call |-> call,
     out |-> NoOutput]

\* ActorAgent.invoke that tests the step without stripping it
ActorAgent_invoke_unstripped(s, goal, step, xml, fresh) ==
    IF step = <<>>
    THEN Returned(s, NoCall, NoOutput)
    ELSE LET r == _invoke_chain(s, "actor",
                      Prompt("actor", goal, step, xml, "", <<>>), fresh) IN
         IF r.raised THEN Raised(s, r.error, r.call)
         ELSE Returned(r.session, r.call,
                  [NoOutput EXCEPT !.explanation = r.out.explanation,
                                   !.tool_calls = r.out.tool_calls])

\* ActorAgent.invoke
ActorAgent_invoke(s, goal, step, xml, fresh) ==
    IF strip(step) = <<>>
    THEN Returned(s, NoCall, NoOutput)
    ELSE LET r == _invoke_chain(s, "actor",
                      Prompt("actor", goal, step, xml, "", <<>>), fresh) IN
         IF r.raised THEN Raised(s, r.error, r.call)
         ELSE Returned(r.session, r.call,
                  [NoOutput EXCEPT !.explanation = r.out.explanation,
                                   !.tool_calls = r.out.tool_calls])

\* the steps PlannerAgent.invoke keeps in unstructured mode
RECURSIVE unstructured_steps(_)
unstructured_steps(pieces) ==
    IF pieces = <<>> THEN <<>>
    ELSE LET step == strip(Head(pieces)) IN
         IF step # <<>> /\ upper(step) # <<"N", "O", "O", "P">>
         THEN <<step>> \o unstructured_steps(Tail(pieces))
         ELSE unstructured_steps(Tail(pieces))

\* [action for action in response.structured.actions if action]
RECURSIVE structured_steps(_)
structured_steps(actions) ==
    IF actions = <<>> THEN <<>>
    ELSE IF Head(actions) # <<>>
    THEN <<Head(actions)>> \o structured_steps(Tail(actions))
    ELSE structured_steps(Tail(actions))

\* PlannerAgent.invoke
PlannerAgent_invoke(s, provider, goal, xml, fresh) ==
    LET r == _invoke_chain(s, "planner",
                 Prompt("planner", goal, <<>>, xml, "", s.examples), fresh) IN
    IF r.raised THEN Raised(s, r.error, r.call)
    ELSE IF provider \notin UNSTRUCTURED_OUTPUT_MODELS
    THEN Returned(r.session, r.call,
             [NoOutput EXCEPT !.explanation = r.out.explanation,
                              !.steps = structured_steps(r.out.steps)])
    ELSE LET content == removesuffix(
                            removeprefix(strip(r.out.value), LIST_SEPARATOR),
                            LIST_SEPARATOR) IN
         Returned(r.session, r.call,
             [NoOutput EXCEPT !.explanation = "",
                  !.steps = unstructured_steps(split(content, LIST_SEPARATOR))])

\* add_example that puts the example in front of the list
PlannerAgent_add_example_in_front(s, provider, goal, actions) ==
    LET output == IF provider \in UNSTRUCTURED_OUTPUT_MODELS
                  THEN [is_list |-> FALSE,
                        items   |-> <<join_texts(actions, LIST_SEPARATOR)>>]
                  ELSE [is_list |-> TRUE, items |-> actions] IN
    [s EXCEPT !.examples =
        <<[goal |-> goal, accessibility_tree |-> "", actions |-> output]>>
            \o @]

\* PlannerAgent.add_example
PlannerAgent_add_example(s, provider, goal, actions) ==
    LET output == IF provider \in UNSTRUCTURED_OUTPUT_MODELS
                  THEN [is_list |-> FALSE,
                        items   |-> <<join_texts(actions, LIST_SEPARATOR)>>]
                  ELSE [is_list |-> TRUE, items |-> actions] IN
    [s EXCEPT !.examples = Append(@,
        [goal |-> goal, accessibility_tree |-> "", actions |-> output])]

\* [item.strip() for item in value.split(LIST_SEPARATOR) if item]
RECURSIVE retrieved_items(_)
retrieved_items(pieces) ==
    IF pieces = <<>> THEN <<>>
    ELSE IF Head(pieces) # <<>>
    THEN <<strip(Head(pieces))>> \o retrieved_items(Tail(pieces))
    ELSE retrieved_items(Tail(pieces))

\* the value without the coercion of near-miss separators
retrieved_value_uncoerced(raw) ==
    LET value == strip(removesuffix(removeprefix(raw, LIST_SEPARATOR),
                                    LIST_SEPARATOR)) IN
    IF contains(value, LIST_SEPARATOR)
    THEN [is_list |-> TRUE,
          items   |-> retrieved_items(split(value, LIST_SEPARATOR))]
    ELSE [is_list |-> FALSE, items |-> <<value>>]

\* the value RetrieverAgent.invoke returns for the model's value field
retrieved_value(raw) ==
    LET value == sub_near_separator(strip(
                     removesuffix(removeprefix(raw, LIST_SEPARATOR),
                                  LIST_SEPARATOR))) IN
    IF contains(value, LIST_SEPARATOR)
    THEN [is_list |-> TRUE,
          items   |-> retrieved_items(split(value, LIST_SEPARATOR))]
    ELSE [is_list |-> FALSE, items |-> <<value>>]

\* RetrieverAgent.invoke: with a screenshot the tree, title and url are left
\* out of the prompt and the image is attached
RetrieverAgent_invoke(s, information, xml, title, url, screenshot, fresh) ==
    LET key == IF screenshot = ""
               THEN Prompt("retriever", information, <<>>, xml,
                           title \o "|" \o url, <<>>)
               ELSE Prompt("retriever", information, <<>>, "",
                           "image:" \o screenshot, <<>>)
        r == _invoke_chain(s, "retriever", key, fresh) IN
    IF r.raised THEN Raised(s, r.error, r.call)
    ELSE Returned(r.session, r.call,
             [NoOutput EXCEPT !.explanation = r.out.explanation,
                              !.value = retrieved_value(r.out.value)])

\* AreaAgent.invoke
AreaAgent_invoke(s, description, xml, fresh) ==
    LET r == _invoke_chain(s, "area",
                 Prompt("area", description, <<>>, xml, "", <<>>), fresh) IN
    IF r.raised THEN Raised(s, r.error, r.call)
    ELSE Returned(r.session, r.call,
             [NoOutput EXCEPT !.explanation = r.out.explanation,
                              !.id = r.out.id])

\* LocatorAgent.invoke: a list of one element
LocatorAgent_invoke(s, description, xml, fresh) ==
    LET r == _invoke_chain(s, "locator",
                 Prompt("locator", description, <<>>, xml, "", <<>>), fresh) IN
    IF r.raised THEN Raised(s, r.error, r.call)
    ELSE Returned(r.session, r.call,
             [NoOutput EXCEPT !.explanation = r.out.explanation,
                              !.id = r.out.id])

\* ChangesAnalyzerAgent.invoke: content is the paragraphs that "\n\n"
\* separates, and replace("\n\n", " ") joins them with a blank
ChangesAnalyzerAgent_invoke(s, diff, fresh) ==
    LET r == _invoke_chain(s, "changes_analyzer",
                 Prompt("changes_analyzer", <<>>, <<>>, diff, "", <<>>),
                 fresh) IN
    IF r.raised THEN Raised(s, r.error, r.call)
    ELSE Returned(r.session, r.call,
             [NoOutput EXCEPT !.explanation = join(r.out.content, " ")])


(***************************************************************************)
(* Session.stats                                                           *)
(***************************************************************************)
Session_stats(s) ==
    [total |-> AddUsage(s.usage["planner"],
               AddUsage(s.usage["actor"],
               AddUsage(s.usage["retriever"],
               AddUsage(s.usage["area"], s.usage["locator"])))),
     cache |-> s.cache.usage]

(***************************************************************************)
(* Responses.  `used` records what the handling of the request did: the    *)
(* raw trees it processed, the agent whose invoke it called, what that call *)
(* did with the chain, the XML it showed and what the agent returned.      *)
(***************************************************************************)
NoBody == [none |-> TRUE]

NoUse ==
    [trees |-> <<>>, agent |-> "", call |-> NoCall, shown |-> "",
     produced |-> NoOutput]

Use(trees, agent, a, shown) ==
    [trees |-> trees, agent |-> agent, call |-> a.call, shown |-> shown,
     produced |-> a.out]

\* a response of a route that returned
Ok(s, body, used) ==
    [session |-> s,
     resp |-> [via |-> "http", status |-> 200, raised |-> FALSE,
               error |-> "", detail |-> "", body |-> body, used |-> used]]

\* raise HTTPException(status_code, detail), through http_exception_handler
HTTPException(s, status, detail, used) ==
    [session |-> s,
     resp |-> [via |-> "http", status |-> status, raised |-> FALSE,
               error |-> detail,
               detail |-> IF status = 404 THEN "404" ELSE "500",
               body |-> NoBody, used |-> used]]

(***************************************************************************)
(* The route handlers of server/main.py for a session that was found: the  *)
(* session after the request and the response.                             *)
(***************************************************************************)
\* plan_actions that processes the tree before it looks at session.planner
plan_actions_found_tree_first(s, provider, goal, tree, fresh) ==
    LET t == process_tree(s, tree) IN
    IF ~t.ok
    THEN HTTPException(s, 500, "Failed to plan actions: " \o t.error,
                       [NoUse EXCEPT !.trees = <<tree>>])
    ELSE IF ~s.planner
    THEN Ok(s, [explanation |-> goal, steps |-> <<goal>>], NoUse)
    ELSE LET a == PlannerAgent_invoke(s, provider, goal, to_xml(t.tree), fresh)
             u == Use(<<tree>>, "planner", a, to_xml(t.tree)) IN
         IF a.raised
         THEN HTTPException(a.session, 500,
                  "Failed to plan actions: " \o a.error, u)
         ELSE Ok(a.session,
                 [explanation |-> a.out.explanation, steps |-> a.out.steps], u)

plan_actions_found(s, provider, goal, tree, fresh) ==
    IF ~s.planner
    THEN Ok(s, [explanation |-> goal, steps |-> <<goal>>], NoUse)
    ELSE LET t == process_tree(s, tree) IN
         IF ~t.ok
         THEN HTTPException(s, 500, "Failed to plan actions: " \o t.error,
                            [NoUse EXCEPT !.trees = <<tree>>])
         ELSE LET a == PlannerAgent_invoke(s, provider, goal,
                                           to_xml(t.tree), fresh)
                  u == Use(<<tree>>, "planner", a, to_xml(t.tree)) IN
              IF a.raised
              THEN HTTPException(a.session, 500,
                       "Failed to plan actions: " \o a.error, u)
              ELSE Ok(a.session,
                      [explanation |-> a.out.explanation,
                       steps |-> a.out.steps], u)

\* plan_step_actions that returns the rewritten tool calls last first
plan_step_actions_found_reversed(s, goal, step, tree, fresh) ==
    LET t == process_tree(s, tree) IN
    IF ~t.ok
    THEN HTTPException(s, 500, "Failed to execute actions: " \o t.error,
                       [NoUse EXCEPT !.trees = <<tree>>])
    ELSE LET a == ActorAgent_invoke(s, goal, step, to_xml(t.tree), fresh)
             u == Use(<<tree>>, "actor", a, to_xml(t.tree)) IN
         IF a.raised
         THEN HTTPException(a.session, 500,
                  "Failed to execute actions: " \o a.error, u)
         ELSE IF ~AllMapped(t.tree, a.out.tool_calls)
         THEN HTTPException(a.session, 500,
                  "Failed to execute actions: KeyError", u)
         ELSE LET mapped == map_tool_calls_to_raw_id(t.tree,
                                                     a.out.tool_calls) IN
              Ok(a.session,
                 [explanation |-> a.out.explanation,
                  actions |-> [i \in DOMAIN mapped |->
                                  mapped[Len(mapped) + 1 - i]]], u)

\* plan_step_actions that leaves out the tool calls whose id is not mapped
plan_step_actions_found_skipping(s, goal, step, tree, fresh) ==
    LET t == process_tree(s, tree) IN
    IF ~t.ok
    THEN HTTPException(s, 500, "Failed to execute actions: " \o t.error,
                       [NoUse EXCEPT !.trees = <<tree>>])
    ELSE LET a == ActorAgent_invoke(s, goal, step, to_xml(t.tree), fresh)
             u == Use(<<tree>>, "actor", a, to_xml(t.tree)) IN
         IF a.raised
         THEN HTTPException(a.session, 500,
                  "Failed to execute actions: " \o a.error, u)
         ELSE Ok(a.session,
                 [explanation |-> a.out.explanation,
                  actions |-> map_tool_calls_to_raw_id(t.tree,
                      SelectSeq(a.out.tool_calls,
                                LAMBDA c : Maps(t.tree, c.id)))], u)

plan_step_actions_found(s, goal, step, tree, fresh) ==
    LET t == process_tree(s, tree) IN
    IF ~t.ok
    THEN HTTPException(s, 500, "Failed to execute actions: " \o t.error,
                       [NoUse EXCEPT !.trees = <<tree>>])
    ELSE LET a == ActorAgent_invoke(s, goal, step, to_xml(t.tree), fresh)
             u == Use(<<tree>>, "actor", a, to_xml(t.tree)) IN
         IF a.raised
         THEN HTTPException(a.session, 500,
                  "Failed to execute actions: " \o a.error, u)
         ELSE IF ~AllMapped(t.tree, a.out.tool_calls)
         THEN HTTPException(a.session, 500,
                  "Failed to execute actions: KeyError", u)
         ELSE Ok(a.session,
                 [explanation |-> a.out.explanation,
                  actions |-> map_tool_calls_to_raw_id(t.tree,
                                                       a.out.tool_calls)], u)

\* execute_statement that asserts the value, as the client's check does
execute_statement_found_asserting(s, statement, tree, title, url, screenshot, fresh) ==
    LET t == process_tree(s, tree) IN
    IF ~t.ok
    THEN HTTPException(s, 500, "Failed to verify statement: " \o t.error,
                       [NoUse EXCEPT !.trees = <<tree>>])
    ELSE LET a == RetrieverAgent_invoke(s, statement, to_xml(t.tree),
                                        title, url, screenshot, fresh)
             u == Use(<<tree>>, "retriever", a, to_xml(t.tree)) IN
         IF a.raised
         THEN HTTPException(a.session, 500,
                  "Failed to verify statement: " \o a.error, u)
         ELSE IF a.out.value.items \in {<< <<"false">> >>, << <<>> >>}
         THEN HTTPException(a.session, 500,
                  "Failed to verify statement: " \o a.out.explanation, u)
         ELSE Ok(a.session,
                 [result |-> a.out.value,
                  explanation |-> a.out.explanation], u)

execute_statement_found(s, statement, tree, title, url, screenshot, fresh) ==
    LET t == process_tree(s, tree) IN
    IF ~t.ok
    THEN HTTPException(s, 500, "Failed to verify statement: " \o t.error,
                       [NoUse EXCEPT !.trees = <<tree>>])
    ELSE LET a == RetrieverAgent_invoke(s, statement, to_xml(t.tree),
                                        title, url, screenshot, fresh)
             u == Use(<<tree>>, "retriever", a, to_xml(t.tree)) IN
         IF a.raised
         THEN HTTPException(a.session, 500,
                  "Failed to verify statement: " \o a.error, u)
         ELSE Ok(a.session,
                 [result |-> a.out.value,
                  explanation |-> a.out.explanation], u)

\* AreaResponse(id=..., explanation=...): the field id is declared int, and
\* the model's validation fails on a value that is no integer
AreaResponse(id, explanation) ==
    IF id \in Numerals
    THEN [ok |-> TRUE, body |-> [id |-> id, explanation |-> explanation]]
    ELSE [ok |-> FALSE, body |-> NoBody]

\* FindResponse(elements=...): list[dict[str, int | str]]
FindResponse(elements) == [ok |-> TRUE, body |-> [elements |-> elements]]

\* choose_area without its try/except: an exception reaches
\* general_exception_handler
choose_area_found_uncaught(s, description, tree, fresh) ==
    LET t == process_tree(s, tree)
        a == AreaAgent_invoke(s, description, to_xml(t.tree), fresh)
        u == Use(<<tree>>, "area", a, to_xml(t.tree))
        unhandled(exc, used) ==
            [session |-> IF t.ok THEN a.session ELSE s,
             resp |-> [via |-> "http", status |-> 500, raised |-> FALSE,
                       error |-> "Internal server error", detail |-> exc,
                       body |-> NoBody, used |-> used]] IN
    IF ~t.ok THEN unhandled(t.error, [NoUse EXCEPT !.trees = <<tree>>])
    ELSE IF a.raised THEN unhandled(a.error, u)
    ELSE IF ~Maps(t.tree, a.out.id) THEN unhandled("KeyError", u)
    ELSE IF ~AreaResponse(get_raw_id(t.tree, a.out.id),
                          a.out.explanation).ok
    THEN unhandled("ValidationError", u)
    ELSE Ok(a.session,
            AreaResponse(get_raw_id(t.tree, a.out.id),
                         a.out.explanation).body, u)

\* choose_area that answers the opaque id itself when the tree does not map
\* it
choose_area_found_unmapped_as_is(s, description, tree, fresh) ==
    LET t == process_tree(s, tree) IN
    IF ~t.ok
    THEN HTTPException(s, 500,
             "Failed to choose accessibility area: " \o t.error,
             [NoUse EXCEPT !.trees = <<tree>>])
    ELSE LET a == AreaAgent_invoke(s, description, to_xml(t.tree), fresh)
             u == Use(<<tree>>, "area", a, to_xml(t.tree)) IN
         IF a.raised
         THEN HTTPException(a.session, 500,
                  "Failed to choose accessibility area: " \o a.error, u)
         ELSE IF ~Maps(t.tree, a.out.id)
         THEN Ok(a.session, [id |-> a.out.id,
                             explanation |-> a.out.explanation], u)
         ELSE LET response == AreaResponse(get_raw_id(t.tree, a.out.id),
                                           a.out.explanation) IN
              IF ~response.ok
              THEN HTTPException(a.session, 500,
                       "Failed to choose accessibility area: ValidationError",
                       u)
              ELSE Ok(a.session, response.body, u)

choose_area_found(s, description, tree, fresh) ==
    LET t == process_tree(s, tree) IN
    IF ~t.ok
    THEN HTTPException(s, 500,
             "Failed to choose accessibility area: " \o t.error,
             [NoUse EXCEPT !.trees = <<tree>>])
    ELSE LET a == AreaAgent_invoke(s, description, to_xml(t.tree), fresh)
             u == Use(<<tree>>, "area", a, to_xml(t.tree)) IN
         IF a.raised
         THEN HTTPException(a.session, 500,
                  "Failed to choose accessibility area: " \o a.error, u)
         ELSE IF ~Maps(t.tree, a.out.id)
         THEN HTTPException(a.session, 500,
                  "Failed to choose accessibility area: KeyError", u)
         ELSE LET response == AreaResponse(get_raw_id(t.tree, a.out.id),
                                           a.out.explanation) IN
              IF ~response.ok
              THEN HTTPException(a.session, 500,
                       "Failed to choose accessibility area: ValidationError",
                       u)
              ELSE Ok(a.session, response.body, u)

add_example_found(s, provider, goal, actions) ==
    Ok(PlannerAgent_add_example(s, provider, goal, actions),
       [success |-> TRUE, message |-> "Example added successfully"], NoUse)

\* find_element that maps the ids through another tree than the request's
find_element_found_other_tree(s, description, tree, fresh) ==
    LET t == process_tree(s, tree) IN
    IF ~t.ok
    THEN HTTPException(s, 500, "Failed to find element: " \o t.error,
                       [NoUse EXCEPT !.trees = <<tree>>])
    ELSE LET a == LocatorAgent_invoke(s, description, to_xml(t.tree), fresh)
             u == Use(<<tree>>, "locator", a, to_xml(t.tree)) IN
         IF a.raised
         THEN HTTPException(a.session, 500,
                  "Failed to find element: " \o a.error, u)
         ELSE IF ~Maps(t.tree, a.out.id)
         THEN HTTPException(a.session, 500,
                  "Failed to find element: KeyError", u)
         ELSE Ok(a.session,
                 [elements |-> <<[id |-> get_raw_id(
                                     ServerAccessibilityTree("treeB"),
                                     a.out.id),
                                  explanation |-> a.out.explanation]>>], u)

find_element_found(s, description, tree, fresh) ==
    LET t == process_tree(s, tree) IN
    IF ~t.ok
    THEN HTTPException(s, 500, "Failed to find element: " \o t.error,
                       [NoUse EXCEPT !.trees = <<tree>>])
    ELSE LET a == LocatorAgent_invoke(s, description, to_xml(t.tree), fresh)
             u == Use(<<tree>>, "locator", a, to_xml(t.tree)) IN
         IF a.raised
         THEN HTTPException(a.session, 500,
                  "Failed to find element: " \o a.error, u)
         ELSE IF ~Maps(t.tree, a.out.id)
         THEN HTTPException(a.session, 500,
                  "Failed to find element: KeyError", u)
         ELSE Ok(a.session,
                 FindResponse(<<[id |-> get_raw_id(t.tree, a.out.id),
                                 explanation |-> a.out.explanation]>>).body,
                 u)

\* the sentence about the URL, written whether or not the URLs are empty
url_analysis_unguarded(before_url, after_url) ==
    IF before_url = "" /\ after_url = "" THEN ""
    ELSE IF before_url # after_url
    THEN "URL changed to " \o after_url \o ". "
    ELSE "URL did not change. "

\* the sentence about the URL that precedes the analysis
url_analysis(before_url, after_url) ==
    IF before_url # "" /\ after_url # ""
    THEN IF before_url # after_url
         THEN "URL changed to " \o after_url \o ". "
         ELSE "URL did not change. "
    ELSE ""

analyze_changes_found(s, before_tree, before_url, after_tree, after_url, fresh) ==
    LET b == process_tree(s, before_tree) IN
    IF ~b.ok
    THEN HTTPException(s, 500, "Failed to analyze change: " \o b.error,
                       [NoUse EXCEPT !.trees = <<before_tree>>])
    ELSE
    LET t == process_tree(s, after_tree) IN
    IF ~t.ok
    THEN HTTPException(s, 500, "Failed to analyze change: " \o t.error,
                       [NoUse EXCEPT !.trees = <<before_tree, after_tree>>])
    ELSE LET diff == compute_diff(to_xml_exclude_id(b.tree),
                                  to_xml_exclude_id(t.tree))
             a == ChangesAnalyzerAgent_invoke(s, diff, fresh)
             u == Use(<<before_tree, after_tree>>, "changes_analyzer", a,
                      diff) IN
         IF a.raised
         THEN HTTPException(a.session, 500,
                  "Failed to analyze change: " \o a.error, u)
         ELSE Ok(a.session,
                 [result |-> url_analysis(before_url, after_url)
                             \o a.out.explanation], u)

\* clear_examples that fails when there is nothing to clear
clear_examples_found_nonempty(s) ==
    IF s.examples = <<>>
    THEN HTTPException(s, 500, "Failed to clear examples: no examples", NoUse)
    ELSE Ok([s EXCEPT !.examples = <<>>],
            [success |-> TRUE,
             message |-> "All examples cleared successfully"], NoUse)

clear_examples_found(s) ==
    Ok([s EXCEPT !.examples = <<>>],
       [success |-> TRUE, message |-> "All examples cleared successfully"],
       NoUse)

save_cache_found(s) ==
    Ok([s EXCEPT !.cache = cache_save(@)],
       [success |-> TRUE, message |-> "Cache saved successfully"], NoUse)

discard_cache_found(s) ==
    Ok([s EXCEPT !.cache = cache_discard(@)],
       [success |-> TRUE, message |-> "Cache discarded successfully"], NoUse)

get_session_stats_found(s) == Ok(s, Session_stats(s), NoUse)


(***************************************************************************)
(* NativeClient: the same operations called in process on the client's own *)
(* session.  A call returns a value or raises.                             *)
(***************************************************************************)
Return(s, body, used) ==
    [session |-> s,
     resp |-> [via |-> "native", status |-> 0, raised |-> FALSE,
               error |-> "", detail |-> "", body |-> body, used |-> used]]

Raise(s, error, used) ==
    [session |-> s,
     resp |-> [via |-> "native", status |-> 0, raised |-> TRUE,
               error |-> error, detail |-> "", body |-> NoBody,
               used |-> used]]

\* clients/typecasting.loosely_typecast, left uninterpreted
loosely_typecast(value) == [loosely_typecast |-> value]

NativeClient_plan_actions_call(s, provider, goal, tree, fresh) ==
    IF ~s.planner
    THEN Return(s, [explanation |-> goal, steps |-> <<goal>>], NoUse)
    ELSE LET t == process_tree(s, tree) IN
         IF ~t.ok
         THEN Raise(s, t.error, [NoUse EXCEPT !.trees = <<tree>>])
         ELSE LET a == PlannerAgent_invoke(s, provider, goal,
                                           to_xml(t.tree), fresh)
                  u == Use(<<tree>>, "planner", a, to_xml(t.tree)) IN
              IF a.raised THEN Raise(a.session, a.error, u)
              ELSE Return(a.session,
                          [explanation |-> a.out.explanation,
                           steps |-> a.out.steps], u)

NativeClient_add_example_call(s, provider, goal, actions) ==
    Return(PlannerAgent_add_example(s, provider, goal, actions), NoBody, NoUse)

NativeClient_clear_examples_call(s) ==
    Return([s EXCEPT !.examples = <<>>], NoBody, NoUse)

NativeClient_execute_action_call(s, goal, step, tree, fresh) ==
    LET t == process_tree(s, tree) IN
    IF ~t.ok
    THEN Raise(s, t.error, [NoUse EXCEPT !.trees = <<tree>>])
    ELSE LET a == ActorAgent_invoke(s, goal, step, to_xml(t.tree), fresh)
             u == Use(<<tree>>, "actor", a, to_xml(t.tree)) IN
         IF a.raised THEN Raise(a.session, a.error, u)
         ELSE IF ~AllMapped(t.tree, a.out.tool_calls)
         THEN Raise(a.session, "KeyError", u)
         ELSE Return(a.session,
                     [explanation |-> a.out.explanation,
                      actions |-> map_tool_calls_to_raw_id(t.tree,
                                                     a.out.tool_calls)], u)

NativeClient_retrieve_call(s, statement, tree, title, url, screenshot, fresh) ==
    LET t == process_tree(s, tree) IN
    IF ~t.ok
    THEN Raise(s, t.error, [NoUse EXCEPT !.trees = <<tree>>])
    ELSE LET a == RetrieverAgent_invoke(s, statement, to_xml(t.tree),
                                        title, url, screenshot, fresh)
             u == Use(<<tree>>, "retriever", a, to_xml(t.tree)) IN
         IF a.raised THEN Raise(a.session, a.error, u)
         ELSE Return(a.session,
                     [result |-> loosely_typecast(a.out.value),
                      explanation |-> a.out.explanation], u)

\* ALUMNIUM_RETRIES: the tries of the client's @retry
RETRIES == 2

\* Alumni.check and Area.check under @retry(tries=RETRIES, delay=DELAY):
\* an attempt retrieves and asserts the value; every exception of an
\* attempt, the AssertionError included, starts the next attempt until the
\* tries are used up.  freshes[n] is the provider's outcome of attempt n,
\* and falsy the results bool() makes False.
RECURSIVE Alumni_check_call(_, _, _, _, _, _, _, _)
RECURSIVE Alumni_check_after(_, _, _, _, _, _, _, _)
\* what an attempt of check does with the outcome r of client.retrieve
Alumni_check_after(r, statement, tree, vision, freshes, falsy, _tries, n) ==
    IF ~r.resp.raised /\ r.resp.body.result \notin falsy
    THEN Return(r.session, [explanation |-> r.resp.body.explanation],
                r.resp.used)
    ELSE IF _tries - 1 = 0
    THEN IF r.resp.raised THEN r
         ELSE [Raise(r.session, "AssertionError", r.resp.used)
                  EXCEPT !.resp.detail = r.resp.body.explanation]
    ELSE Alumni_check_call(r.session, statement, tree, vision, freshes,
                           falsy, _tries - 1, n + 1)

Alumni_check_call(s, statement, tree, vision, freshes, falsy, _tries, n) ==
    Alumni_check_after(
        NativeClient_retrieve_call(s,
            <<"Is the following true or false - ">> \o statement,
            tree, "title", "url", IF vision THEN "screenshot" ELSE "",
            freshes[n]),
        statement, tree, vision, freshes, falsy, _tries, n)

\* mcp.handlers.handle_check: the AssertionError of Alumni.check becomes
\* the text of a failed check; any other exception leaves the handler
handle_check_text(r) ==
    IF ~r.resp.raised
    THEN Return(r.session,
                [text |-> "Check passed! " \o r.resp.body.explanation],
                r.resp.used)
    ELSE IF r.resp.error = "AssertionError"
    THEN Return(r.session,
                [text |-> "Check failed! " \o r.resp.detail], r.resp.used)
    ELSE r

handle_check_call(s, statement, tree, vision, freshes, falsy) ==
    handle_check_text(Alumni_check_call(s, statement, tree, vision, freshes,
                                        falsy, RETRIES, 1))

NativeClient_find_area_call(s, description, tree, fresh) ==
    LET t == process_tree(s, tree) IN
    IF ~t.ok
    THEN Raise(s, t.error, [NoUse EXCEPT !.trees = <<tree>>])
    ELSE LET a == AreaAgent_invoke(s, description, to_xml(t.tree), fresh)
             u == Use(<<tree>>, "area", a, to_xml(t.tree)) IN
         IF a.raised THEN Raise(a.session, a.error, u)
         ELSE IF ~Maps(t.tree, a.out.id)
         THEN Raise(a.session, "KeyError", u)
         ELSE Return(a.session,
                     [id |-> get_raw_id(t.tree, a.out.id),
                      explanation |-> a.out.explanation], u)

NativeClient_find_element_call(s, description, tree, fresh) ==
    LET t == process_tree(s, tree) IN
    IF ~t.ok
    THEN Raise(s, t.error, [NoUse EXCEPT !.trees = <<tree>>])
    ELSE LET a == LocatorAgent_invoke(s, description, to_xml(t.tree), fresh)
             u == Use(<<tree>>, "locator", a, to_xml(t.tree)) IN
         IF a.raised THEN Raise(a.session, a.error, u)
         ELSE IF ~Maps(t.tree, a.out.id)
         THEN Raise(a.session, "KeyError", u)
         ELSE Return(a.session,
                     [id |-> get_raw_id(t.tree, a.out.id),
                      explanation |-> a.out.explanation], u)

NativeClient_analyze_changes_call(s, before_tree, before_url, after_tree, after_url, fresh) ==
    LET b == process_tree(s, before_tree) IN
    IF ~b.ok
    THEN Raise(s, b.error, [NoUse EXCEPT !.trees = <<before_tree>>])
    ELSE
    LET t == process_tree(s, after_tree) IN
    IF ~t.ok
    THEN Raise(s, t.error,
               [NoUse EXCEPT !.trees = <<before_tree, after_tree>>])
    ELSE LET diff == compute_diff(to_xml_exclude_id(b.tree),
                                  to_xml_exclude_id(t.tree))
             a == ChangesAnalyzerAgent_invoke(s, diff, fresh)
             u == Use(<<before_tree, after_tree>>, "changes_analyzer", a,
                      diff)
             analysis == IF before_url # "" /\ after_url # ""
                         THEN IF before_url # after_url
                              THEN "URL changed to " \o after_url \o ". "
                              ELSE "URL did not change. "
                         ELSE "" IN
         IF a.raised THEN Raise(a.session, a.error, u)
         ELSE Return(a.session,
                     [result |-> analysis \o a.out.explanation], u)


(***************************************************************************)
(* The client library: Alumni and Area on a driver with a NativeClient.    *)
(* The drivers, the tools and the client's tree classes are collaborators  *)
(* of the library: a driver shows a page, its accessibility tree is that   *)
(* of the page it shows, and a tool call it executes changes the page.     *)
(* The explanations the library compares with the goal are texts of the    *)
(* kind of the goal.                                                       *)
(***************************************************************************)
\* the raw trees of the pages of the driver
PageTrees == <<"treeA", "treeB", "treeN">>

\* driver.accessibility_tree.to_str()
accessibility_tree(d) == PageTrees[d.page + 1]

\* BaseTool.execute_tool_call(tool_call, tools, driver): the driver after it
execute_tool_call(d, tool_call) ==
    [d EXCEPT !.page = (@ + 1) % Len(PageTrees)]

\* what a do call did, in order: the reads of the driver's tree ("read"),
\* the calls of the client ("plan" with the steps it returned, "act" with
\* the tool calls it returned) with the tree each sent and whether it
\* returned, and the tool calls executed on the driver ("tool") with the
\* tree of the page each left
Event(kind, tree, step, steps, tool_calls, ok) ==
    [kind |-> kind, tree |-> tree, step |-> step, steps |-> steps,
     calls |-> tool_calls, ok |-> ok, error |-> ""]

\* a call of the client that raised, with the exception it raised
Failed(kind, tree, step, error) ==
    [kind |-> kind, tree |-> tree, step |-> step, steps |-> <<>>,
     calls |-> <<>>, ok |-> FALSE, error |-> error]

\* the locals of one attempt of do, with the session and the driver
DoState(s, d, tr, initial) ==
    [session |-> s, driver |-> d, trace |-> tr, initial |-> initial,
     explanation |-> <<>>, steps |-> <<>>, executed |-> <<>>,
     called |-> <<>>, raised |-> FALSE, error |-> ""]

\* do that executes the tool calls of a step last to first
RECURSIVE execute_tool_calls_reversed(_, _)
execute_tool_calls_reversed(st, actions) ==
    IF actions = <<>> THEN st
    ELSE execute_tool_calls_reversed(
             [st EXCEPT
                !.driver = execute_tool_call(@, actions[Len(actions)]),
                !.called = Append(@, actions[Len(actions)]),
                !.trace = Append(@,
                    Event("tool",
                          accessibility_tree(
                              execute_tool_call(st.driver,
                                                actions[Len(actions)])),
                          <<>>, <<>>, <<actions[Len(actions)]>>, TRUE))],
             SubSeq(actions, 1, Len(actions) - 1))

\* for tool_call in actions: called_tools.append(execute_tool_call(...))
RECURSIVE execute_tool_calls(_, _)
execute_tool_calls(st, actions) ==
    IF actions = <<>> THEN st
    ELSE execute_tool_calls(
             [st EXCEPT
                !.driver = execute_tool_call(@, Head(actions)),
                !.called = Append(@, Head(actions)),
                !.trace = Append(@,
                    Event("tool",
                          accessibility_tree(
                              execute_tool_call(st.driver, Head(actions))),
                          <<>>, <<>>, <<Head(actions)>>, TRUE))],
             Tail(actions))

\* executed_steps.append(DoStep(name=step, tools=called_tools))
Do_executed(st, step) ==
    [st EXCEPT !.executed = Append(@, [name |-> step, tools |-> st.called])]

\* the body of the loop after client.execute_action answered r
Do_acted(st, goal, step, tree, r) ==
    IF r.resp.raised
    THEN [st EXCEPT
            !.session = r.session,
            !.raised = TRUE,
            !.error = r.resp.error,
            !.trace = Append(@, Failed("act", tree, step, r.resp.error))]
    ELSE Do_executed(
             execute_tool_calls(
                 [st EXCEPT
                    !.session = r.session,
                    !.explanation = IF @ = goal THEN r.resp.body.explanation
                                    ELSE @,
                    !.called = <<>>,
                    !.trace = Append(@, Event("act", tree, step, <<>>,
                                              r.resp.body.actions, TRUE))],
                 r.resp.body.actions),
             step)

Do_act(st, goal, step, tree, fresh) ==
    Do_acted(st, goal, step, tree,
             NativeClient_execute_action_call(st.session, goal, step, tree,
                                              fresh))

\* one pass of the loop over the steps.  Alumni.do sends the initial tree
\* with the first step and reads the driver's tree for every later step;
\* Area.do sends the tree the area holds with every step.
Do_step(st, goal, idx, fresh, held) ==
    IF held # None
    THEN Do_act(st, goal, st.steps[idx], held, fresh)
    ELSE IF idx = 1
    THEN Do_act(st, goal, st.steps[idx], st.initial, fresh)
    ELSE Do_act([st EXCEPT !.trace = Append(@,
                     Event("read", accessibility_tree(st.driver), <<>>, <<>>,
                           <<>>, TRUE))],
                goal, st.steps[idx], accessibility_tree(st.driver), fresh)

RECURSIVE Do_loop(_, _, _, _, _)
Do_loop(st, goal, idx, freshes, held) ==
    IF st.raised \/ idx > Len(st.steps) THEN st
    ELSE Do_loop(Do_step(st, goal, idx, freshes[idx], held), goal, idx + 1,
                 freshes, held)

\* explanation, steps = self.client.plan_actions(goal, tree), answered p
Do_planned(st, goal, tree, p) ==
    IF p.resp.raised
    THEN [st EXCEPT
            !.session = p.session,
            !.raised = TRUE,
            !.error = p.resp.error,
            !.trace = Append(@, Failed("plan", tree, goal, p.resp.error))]
    ELSE [st EXCEPT
            !.session = p.session,
            !.explanation = p.resp.body.explanation,
            !.steps = p.resp.body.steps,
            !.trace = Append(@, Event("plan", tree, goal, p.resp.body.steps,
                                      <<>>, TRUE))]

\* one attempt of Alumni.do (held = None) or of Area.do (held the tree of
\* the area); script.plan is the answer of the provider to the Planner and
\* script.acts[i] its answer to the Actor for step i
Do_attempt(s, d, tr, provider, goal, script, held) ==
    IF held # None
    THEN Do_loop(Do_planned(DoState(s, d, tr, held), goal, held,
                            NativeClient_plan_actions_call(s, provider, goal,
                                                           held, script.plan)),
                 goal, 1, script.acts, held)
    ELSE Do_loop(Do_planned(DoState(s, d,
                                Append(tr, Event("read", accessibility_tree(d),
                                                 <<>>, <<>>, <<>>, TRUE)),
                                accessibility_tree(d)),
                            goal, accessibility_tree(d),
                            NativeClient_plan_actions_call(s, provider, goal,
                                accessibility_tree(d), script.plan)),
                 goal, 1, script.acts, None)

\* do under @retry(tries=RETRIES, delay=DELAY): every exception of an
\* attempt starts the next attempt, on the session and the driver as the
\* attempt left them, until the tries are used up
RECURSIVE Do_call(_, _, _, _, _, _, _, _, _)
Do_after(st, provider, goal, scripts, held, _tries, n) ==
    IF st.raised /\ _tries - 1 # 0
    THEN Do_call(st.session, st.driver, st.trace, provider, goal, scripts, held,
                 _tries - 1, n + 1)
    ELSE st

Do_call(s, d, tr, provider, goal, scripts, held, _tries, n) ==
    Do_after(Do_attempt(s, d, tr, provider, goal, scripts[n], held),
             provider, goal, scripts, held, _tries, n)

\* the DoResult do returns, or the exception of its last attempt
DoResult(st) ==
    IF st.raised
    THEN Raise(st.session, st.error, NoUse).resp
    ELSE Return(st.session,
                [explanation |-> st.explanation, steps |-> st.executed],
                NoUse).resp

(***************************************************************************)
(* Alumni.check, Alumni.get and Alumni.find on the page the driver shows,  *)
(* each under @retry(tries=RETRIES, delay=DELAY).  `cast` holds what the   *)
(* typecasting of the client makes of the results: cast.falsy the results  *)
(* bool() makes False and cast.none the results that are None.             *)
(***************************************************************************)
\* the locals of one attempt of check, get or find
Tried(s, d, tr) ==
    [session |-> s, driver |-> d, trace |-> tr, raised |-> FALSE,
     error |-> "", detail |-> "", result |-> NoBody]

\* what the method returns when its call of the client returned r
Alumni_result(method, d, r, cast) ==
    CASE method = "check" -> [explanation |-> r.resp.body.explanation]
      [] method = "get" ->
            IF r.resp.body.result \in cast.none
            THEN [data |-> r.resp.body.explanation]
            ELSE [data |-> r.resp.body.result]
      [] method = "find" -> [element |-> r.resp.body.id, page |-> d.page]

\* the attempt after its call of the client, the assertion of check
\* included, ended as r on the tree that was read
Alumni_attempted(method, st, tree, text, r, cast) ==
    IF r.resp.raised
    THEN [st EXCEPT
            !.session = r.session,
            !.raised = TRUE,
            !.error = r.resp.error,
            !.detail = r.resp.detail,
            !.trace = Append(@, Failed(method, tree, text, r.resp.error))]
    ELSE [st EXCEPT
            !.session = r.session,
            !.result = Alumni_result(method, st.driver, r, cast),
            !.trace = Append(@, Event(method, tree, text, <<>>, <<>>, TRUE))]

\* one attempt: the tree of the driver is read and the client is called
Alumni_attempt(method, st, text, vision, fresh, cast) ==
    Alumni_attempted(method, st, accessibility_tree(st.driver), text,
        CASE method = "check" ->
                Alumni_check_call(st.session, text,
                    accessibility_tree(st.driver), vision, <<fresh>>,
                    cast.falsy, 1, 1)
          [] method = "get" ->
                NativeClient_retrieve_call(st.session, text,
                    accessibility_tree(st.driver), "title", "url",
                    IF vision THEN "screenshot" ELSE "", fresh)
          [] method = "find" ->
                NativeClient_find_element_call(st.session, text,
                    accessibility_tree(st.driver), fresh),
        cast)

\* a method that makes one attempt whatever RETRIES is
Alumni_after_once(st, method, text, vision, freshes, cast, _tries, n) == st

\* @retry(tries=RETRIES, delay=DELAY): every exception of an attempt starts
\* the next attempt, on the session as the attempt left it, until the
\* tries are used up; the exception of the last attempt is raised
RECURSIVE Alumni_call(_, _, _, _, _, _, _, _, _, _)
Alumni_after(st, method, text, vision, freshes, cast, _tries, n) ==
    IF st.raised /\ _tries - 1 # 0
    THEN Alumni_call(method, st.session, st.driver, st.trace, text, vision,
                     freshes, cast, _tries - 1, n + 1)
    ELSE st

Alumni_call(method, s, d, tr, text, vision, freshes, cast, _tries, n) ==
    Alumni_after(Alumni_attempt(method, Tried(s, d, tr), text, vision,
                                freshes[n], cast),
                 method, text, vision, freshes, cast, _tries, n)

\* what the method returns, or the exception of its last attempt
Alumni_returned(st) ==
    IF st.raised
    THEN [Raise(st.session, st.error, NoUse).resp EXCEPT !.detail = st.detail]
    ELSE Return(st.session, st.result, NoUse).resp

(***************************************************************************)
(* SessionManager                                                          *)
(***************************************************************************)
\* Model(provider=provider, name=name) raises for a provider outside the
\* enumeration
ValidProvider(provider) == provider \in {"anthropic", "ollama"}

\* uuid.uuid4(): an id that was never handed out before
uuid4 == CHOOSE id \in Ids \ created : \A other \in Ids \ created : id <= other

\* Session.__init__ assigning self.llm.cache: the handle is one object, and
\* every session that holds it sees the cache it is bound to now
rebind(registry, session_id, llm) ==
    [k \in DOMAIN registry |->
        IF llm # None /\ registry[k].llm.handle = llm
        THEN [registry[k] EXCEPT !.llm.cache = <<session_id>>]
        ELSE registry[k]]

SessionManager_create_session(session_id, provider, platform, planner, llm) ==
    [sessions |-> rebind(sessions, session_id, llm)
                    @@ (session_id :> Session_init(provider, platform,
                                                   planner, llm)),
     order    |-> Append(order, session_id),
     returned |-> session_id]

\* delete_session that drops the whole registry
SessionManager_delete_session_all(session_id) ==
    IF session_id \in DOMAIN sessions
    THEN [returned |-> TRUE,
          sessions |-> [k \in {} |-> sessions[k]],
          order    |-> <<>>]
    ELSE [returned |-> FALSE, sessions |-> sessions, order |-> order]

\* delete_session that returns True whether or not the id is registered
SessionManager_delete_session_true(session_id) ==
    [returned |-> TRUE,
     sessions |-> [k \in DOMAIN sessions \ {session_id} |-> sessions[k]],
     order    |-> SelectSeq(order, LAMBDA k : k # session_id)]

SessionManager_delete_session(session_id) ==
    IF session_id \in DOMAIN sessions
    THEN [returned |-> TRUE,
          sessions |-> [k \in DOMAIN sessions \ {session_id} |-> sessions[k]],
          order    |-> SelectSeq(order, LAMBDA k : k # session_id)]
    ELSE [returned |-> FALSE, sessions |-> sessions, order |-> order]

SessionManager_list_sessions == order

(***************************************************************************)
(* The state machine.                                                      *)
(***************************************************************************)
NoSession == Session("", FALSE)

Request(op, via, sid, args) ==
    [op |-> op, via |-> via, sid |-> sid, args |-> args]

\* the fields the request model of a route requires (server/api_models.py);
\* a route without a body requires none
RequiredFields(op) ==
    CASE op = "create_session" -> {"platform", "provider", "tools"}
      [] op = "plans"          -> {"goal", "accessibility_tree"}
      [] op = "steps"          -> {"goal", "step", "accessibility_tree"}
      [] op = "statements"     -> {"statement", "accessibility_tree"}
      [] op \in {"areas", "elements"} -> {"description", "accessibility_tree"}
      [] op = "add_example"    -> {"goal", "actions"}
      [] op = "changes"        -> {"before", "after"}
      [] OTHER                 -> {}

\* the validation of the body against the request model, which the
\* framework runs before it calls the handler; a body that is no JSON
\* object, or an empty one, carries no field of the model
validates(op, args) ==
    /\ RequiredFields(op) \subseteq DOMAIN args
    /\ op = "create_session" =>
          args.platform \in {"chromium", "uiautomator2", "xcuitest"}

\* the 422 answer of the framework
Unprocessable ==
    [via |-> "http", status |-> 422, raised |-> FALSE, error |-> "",
     detail |-> "validation_error", body |-> NoBody, used |-> NoUse]

Init ==
    /\ current \in {"anthropic", "ollama"}
    /\ native \in {Session(platform, planner) :
                      platform \in {"chromium", "windows"},
                      planner \in BOOLEAN}
    /\ sessions = [k \in {} |-> NoSession]
    /\ order = <<>>
    /\ created = {}
    /\ deleted = {}
    /\ calls = 0
    /\ req = Request("", "", 0, NoBody)
    /\ resp = [via |-> "", status |-> 0, raised |-> FALSE, error |-> "",
               detail |-> "", body |-> NoBody, used |-> NoUse]
    /\ driver = [page |-> 0]
    /\ area = None
    /\ trace = <<>>
    /\ loop = [ready |-> {}, accepted |-> 0, done |-> <<>>]

\* the stages of SessionManager.create_session that can raise before the
\* session is put into the registry: Model(provider=...), the conversion of
\* the tool schemas, and, inside Session(...), the construction of the LLM
\* handle and of the agents
CreationStages ==
    {"Model", "convert_schemas_to_tools", "create_llm", "agents"}

\* the stage that raises, "" when none does: Model(...) raises for a
\* provider that is none, and `breaks` is the stage at which a collaborator
\* raises, if one does
raising_stage(provider, breaks) ==
    IF ~ValidProvider(provider) THEN "Model" ELSE breaks

\* the message of the exception of a stage
creation_error(provider, stage) ==
    IF stage = "Model" THEN provider \o " is not a valid Provider"
    ELSE "cannot create: " \o stage

\* create_session that puts the id into the registry before it constructs
\* the session
SessionManager_create_session_registering_first(session_id, provider, platform, planner, breaks) ==
    LET r == SessionManager_create_session(session_id, provider, platform,
                                           planner, None) IN
    [raised   |-> raising_stage(provider, breaks) # "",
     error    |-> creation_error(provider, raising_stage(provider, breaks)),
     sessions |-> r.sessions, order |-> r.order, returned |-> r.returned]

\* SessionManager.create_session as POST /v1/sessions calls it: it raises
\* from the stage that fails, before `self.sessions[session_id] = ...`, or
\* registers the session and returns its id
SessionManager_create_session_or_raise(session_id, provider, platform, planner, breaks) ==
    IF raising_stage(provider, breaks) # ""
    THEN [raised   |-> TRUE,
          error    |-> creation_error(provider,
                                      raising_stage(provider, breaks)),
          sessions |-> sessions, order |-> order, returned |-> 0]
    ELSE LET r == SessionManager_create_session(session_id, provider,
                                                platform, planner, None) IN
         [raised   |-> FALSE, error |-> "",
          sessions |-> r.sessions, order |-> r.order,
          returned |-> r.returned]

\* POST /v1/sessions, with the stage at which a collaborator raises
create_session_with(provider, platform, planner, breaks) ==
    /\ req' = Request("create_session", "http", 0,
                      [provider |-> provider, platform |-> platform,
                       tools |-> <<>>, planner |-> planner])
    /\ IF ~validates("create_session",
                     [provider |-> provider, platform |-> platform,
                      tools |-> <<>>, planner |-> planner])
       THEN /\ resp' = Unprocessable
            /\ UNCHANGED <<sessions, order, created>>
       ELSE /\ raising_stage(provider, breaks) = "" => created # Ids
            /\ LET r == SessionManager_create_session_or_raise(
                            IF created # Ids THEN uuid4 ELSE 0, provider,
                            platform, planner, breaks) IN
               /\ sessions' = r.sessions
               /\ order' = r.order
               /\ created' = IF r.raised THEN created
                              ELSE created \cup {r.returned}
               /\ resp' = IF r.raised
                          THEN HTTPException(NoSession, 500,
                                   "Failed to create session: " \o r.error,
                                   NoUse).resp
                          ELSE Ok(NoSession, [session_id |-> r.returned],
                                  NoUse).resp
    /\ UNCHANGED <<current, native, deleted, calls, library, loop>>

\* POST /v1/sessions when no collaborator raises
create_session(provider, platform, planner) ==
    create_session_with(provider, platform, planner, "")

\* SessionManager.create_session called in process, as NativeClient.__init__
\* calls it, with the chat model the caller supplied or with none
SessionManager_create(platform, planner, llm) ==
    /\ created # Ids
    /\ req' = Request("create_session", "native", 0,
                      [platform |-> platform, planner |-> planner,
                       llm |-> llm])
    /\ LET r == SessionManager_create_session(uuid4, "anthropic", platform,
                                              planner, llm) IN
       /\ sessions' = r.sessions
       /\ order' = r.order
       /\ created' = created \cup {r.returned}
       /\ resp' = [via |-> "native", status |-> 0, raised |-> FALSE,
                   error |-> "", detail |-> "",
                   body |-> [session_id |-> r.returned], used |-> NoUse]
    /\ UNCHANGED <<current, native, deleted, calls, library, loop>>

\* DELETE /v1/sessions/{session_id}
delete_session(sid) ==
    LET r == SessionManager_delete_session(sid) IN
    /\ req' = Request("delete_session", "http", sid, NoBody)
    /\ sessions' = r.sessions
    /\ order' = r.order
    /\ deleted' = IF r.returned THEN deleted \cup {sid} ELSE deleted
    /\ resp' = IF r.returned
               THEN [via |-> "http", status |-> 204, raised |-> FALSE,
                     error |-> "", detail |-> "", body |-> NoBody,
                     used |-> NoUse]
               ELSE HTTPException(NoSession, 404, "Session not found",
                                  NoUse).resp
    /\ UNCHANGED <<current, native, created, calls, library, loop>>

\* GET /v1/sessions
\* the total_stats get_total_stats holds after the sessions of `ids`, in
\* order, were added to the zeros it starts from
RECURSIVE total_stats_over(_)
total_stats_over(ids) ==
    IF ids = <<>>
    THEN [total |-> ZeroUsage, cache |-> ZeroUsage]
    ELSE LET session_stats == Session_stats(sessions[ids[Len(ids)]])
             total_stats == total_stats_over(SubSeq(ids, 1, Len(ids) - 1)) IN
         [total |-> AddUsage(total_stats.total, session_stats.total),
          cache |-> AddUsage(total_stats.cache, session_stats.cache)]

\* get_total_stats that returns from inside its loop, after the first
\* session
SessionManager_get_total_stats_first_only ==
    total_stats_over(IF order = <<>> THEN <<>> ELSE <<Head(order)>>)

\* SessionManager.get_total_stats: self.sessions.values() in registry order
SessionManager_get_total_stats == total_stats_over(order)

\* a call of SessionManager.get_total_stats in the server process
get_total_stats ==
    /\ req' = Request("total_stats", "manager", 0, NoBody)
    /\ resp' = [via |-> "manager", status |-> 200, raised |-> FALSE,
                error |-> "", detail |-> "",
                body |-> SessionManager_get_total_stats, used |-> NoUse]
    /\ UNCHANGED <<current, native, sessions, order, created, deleted,
                   calls, library, loop>>

list_sessions ==
    /\ req' = Request("list_sessions", "http", 0, NoBody)
    /\ resp' = Ok(NoSession, [ids |-> SessionManager_list_sessions],
                  NoUse).resp
    /\ UNCHANGED <<current, native, sessions, order, created, deleted,
                   calls, library, loop>>

\* a session-scoped route that looks the session up before the body is
\* validated
Route_lookup_first(request, r) ==
    /\ req' = request
    /\ IF request.sid \notin DOMAIN sessions
       THEN /\ resp' = HTTPException(NoSession, 404, "Session not found",
                                     NoUse).resp
            /\ UNCHANGED <<sessions, calls>>
       ELSE IF ~validates(request.op, request.args)
       THEN /\ resp' = Unprocessable
            /\ UNCHANGED <<sessions, calls>>
       ELSE /\ r.resp.used.call.chained => calls < MaxCalls
            /\ sessions' = [sessions EXCEPT ![request.sid] = r.session]
            /\ resp' = r.resp
            /\ calls' = IF r.resp.used.call.chained THEN calls + 1 ELSE calls
    /\ UNCHANGED <<current, native, order, created, deleted, library, loop>>

\* a route of handlers whose Planners hold one examples list between them,
\* as a list made once and handed to every Planner would be
Routed_sharing_examples(request, r) ==
    /\ req' = request
    /\ IF ~validates(request.op, request.args)
       THEN /\ resp' = Unprocessable
            /\ UNCHANGED <<sessions, calls>>
       ELSE IF request.sid \in DOMAIN sessions
       THEN /\ r.resp.used.call.chained => calls < MaxCalls
            /\ sessions' = [k \in DOMAIN sessions |->
                              IF k = request.sid THEN r.session
                              ELSE [sessions[k] EXCEPT
                                      !.examples = r.session.examples]]
            /\ resp' = r.resp
            /\ calls' = IF r.resp.used.call.chained THEN calls + 1 ELSE calls
       ELSE /\ resp' = HTTPException(NoSession, 404, "Session not found",
                                     NoUse).resp
            /\ UNCHANGED <<sessions, calls>>
    /\ UNCHANGED <<current, native, order, created, deleted>>

\* a session-scoped route: validate the body, answering 422 when it does
\* not fit the request model, resolve the session, answering 404 when
\* there is none, and otherwise take `r`, what the handler makes of the
\* session; Routed is the route without the variables of the client
\* library and of the event loop, which a route called on its own leaves
\* alone
Routed(request, r) ==
    /\ req' = request
    /\ IF ~validates(request.op, request.args)
       THEN /\ resp' = Unprocessable
            /\ UNCHANGED <<sessions, calls>>
       ELSE IF request.sid \in DOMAIN sessions
       THEN /\ r.resp.used.call.chained => calls < MaxCalls
            /\ sessions' = [sessions EXCEPT ![request.sid] = r.session]
            /\ resp' = r.resp
            /\ calls' = IF r.resp.used.call.chained THEN calls + 1 ELSE calls
       ELSE /\ resp' = HTTPException(NoSession, 404, "Session not found",
                                     NoUse).resp
            /\ UNCHANGED <<sessions, calls>>
    /\ UNCHANGED <<current, native, order, created, deleted>>

Route(request, r) == Routed(request, r) /\ UNCHANGED <<library, loop>>

\* a request to a route with a body that does not fit its request model
unprocessable(op, sid, args) ==
    /\ ~validates(op, args)
    /\ IF op = "create_session"
       THEN /\ req' = Request(op, "http", 0, args)
            /\ resp' = Unprocessable
            /\ UNCHANGED <<current, native, sessions, order, created, deleted,
                           calls, library, loop>>
       ELSE Route(Request(op, "http", sid, args),
                  Ok(NoSession, NoBody, NoUse))

get_session_stats(sid) ==
    Route(Request("stats", "http", sid, NoBody),
          get_session_stats_found(sessions[sid]))

plan_actions(sid, goal, tree, fresh) ==
    Route(Request("plans", "http", sid,
                  [goal |-> goal, accessibility_tree |-> tree]),
          plan_actions_found(sessions[sid], current, goal, tree, fresh))

plan_step_actions(sid, goal, step, tree, fresh) ==
    Route(Request("steps", "http", sid,
                  [goal |-> goal, step |-> step, accessibility_tree |-> tree]),
          plan_step_actions_found(sessions[sid], goal, step, tree, fresh))

execute_statement(sid, statement, tree, title, url, screenshot, fresh) ==
    Route(Request("statements", "http", sid,
                  [statement |-> statement, accessibility_tree |-> tree,
                   title |-> title, url |-> url, screenshot |-> screenshot]),
          execute_statement_found(sessions[sid], statement, tree, title, url,
                                             screenshot, fresh))

choose_area(sid, description, tree, fresh) ==
    Route(Request("areas", "http", sid,
                  [description |-> description, accessibility_tree |-> tree]),
          choose_area_found(sessions[sid], description, tree, fresh))

add_example(sid, goal, actions) ==
    /\ sid \in DOMAIN sessions => Len(sessions[sid].examples) < MaxExamples
    /\ Route(Request("add_example", "http", sid,
                  [goal |-> goal, actions |-> actions]),
          add_example_found(sessions[sid], current, goal, actions))

\* find_element that runs the handler without looking the session up
find_element_unchecked(sid, description, tree, fresh) ==
    LET s == IF sid \in DOMAIN sessions THEN sessions[sid]
             ELSE Session("chromium", TRUE)
        r == find_element_found(s, description, tree, fresh) IN
    /\ req' = Request("elements", "http", sid,
                  [description |-> description, accessibility_tree |-> tree])
    /\ r.resp.used.call.chained => calls < MaxCalls
    /\ sessions' = IF sid \in DOMAIN sessions
                   THEN [sessions EXCEPT ![sid] = r.session]
                   ELSE sessions
    /\ resp' = r.resp
    /\ calls' = IF r.resp.used.call.chained THEN calls + 1 ELSE calls
    /\ UNCHANGED <<current, native, order, created, deleted, library, loop>>

find_element(sid, description, tree, fresh) ==
    Route(Request("elements", "http", sid,
                  [description |-> description, accessibility_tree |-> tree]),
          find_element_found(sessions[sid], description, tree, fresh))

analyze_changes(sid, before_tree, before_url, after_tree, after_url, fresh) ==
    Route(Request("changes", "http", sid,
                  [before |-> [accessibility_tree |-> before_tree,
                               url |-> before_url],
                   after  |-> [accessibility_tree |-> after_tree,
                               url |-> after_url]]),
          analyze_changes_found(sessions[sid], before_tree, before_url,
                                           after_tree, after_url, fresh))

clear_examples(sid) ==
    Route(Request("clear_examples", "http", sid, NoBody),
          clear_examples_found(sessions[sid]))

save_cache(sid) ==
    Route(Request("save_cache", "http", sid, NoBody),
          save_cache_found(sessions[sid]))

discard_cache(sid) ==
    Route(Request("discard_cache", "http", sid, NoBody),
          discard_cache_found(sessions[sid]))

\* a call of the NativeClient on its own session
Call(request, r) ==
    /\ req' = request
    /\ r.resp.used.call.chained => calls < MaxCalls
    /\ native' = r.session
    /\ resp' = r.resp
    /\ calls' = IF r.resp.used.call.chained THEN calls + 1 ELSE calls
    /\ UNCHANGED <<current, sessions, order, created, deleted, library, loop>>

NativeClient_plan_actions(goal, tree, fresh) ==
    Call(Request("plans", "native", 0,
                 [goal |-> goal, accessibility_tree |-> tree]),
         NativeClient_plan_actions_call(native, current, goal, tree, fresh))

NativeClient_add_example(goal, actions) ==
    /\ Len(native.examples) < MaxExamples
    /\ Call(Request("add_example", "native", 0,
                 [goal |-> goal, actions |-> actions]),
         NativeClient_add_example_call(native, current, goal, actions))

NativeClient_clear_examples ==
    Call(Request("clear_examples", "native", 0, NoBody),
         NativeClient_clear_examples_call(native))

NativeClient_execute_action(goal, step, tree, fresh) ==
    Call(Request("steps", "native", 0,
                 [goal |-> goal, step |-> step, accessibility_tree |-> tree]),
         NativeClient_execute_action_call(native, goal, step, tree, fresh))

NativeClient_retrieve(statement, tree, title, url, screenshot, fresh) ==
    Call(Request("statements", "native", 0,
                 [statement |-> statement, accessibility_tree |-> tree,
                  title |-> title, url |-> url, screenshot |-> screenshot]),
         NativeClient_retrieve_call(native, statement, tree, title, url,
                                    screenshot, fresh))

\* Alumni.check on a NativeClient
Alumni_check(statement, tree, vision, freshes, falsy) ==
    Call(Request("check", "native", 0,
                 [statement |-> statement, accessibility_tree |-> tree,
                  vision |-> vision, falsy |-> falsy]),
         Alumni_check_call(native, statement, tree, vision, freshes, falsy,
                           RETRIES, 1))

\* the MCP tool check on a driver with a NativeClient
handle_check(statement, tree, vision, freshes, falsy) ==
    Call(Request("handle_check", "native", 0,
                 [statement |-> statement, accessibility_tree |-> tree,
                  vision |-> vision, falsy |-> falsy]),
         handle_check_call(native, statement, tree, vision, freshes, falsy))

NativeClient_find_area(description, tree, fresh) ==
    Call(Request("areas", "native", 0,
                 [description |-> description, accessibility_tree |-> tree]),
         NativeClient_find_area_call(native, description, tree, fresh))

NativeClient_find_element(description, tree, fresh) ==
    Call(Request("elements", "native", 0,
                 [description |-> description, accessibility_tree |-> tree]),
         NativeClient_find_element_call(native, description, tree, fresh))

NativeClient_analyze_changes(before_tree, before_url, after_tree, after_url, fresh) ==
    Call(Request("changes", "native", 0,
                 [before |-> [accessibility_tree |-> before_tree,
                              url |-> before_url],
                  after  |-> [accessibility_tree |-> after_tree,
                              url |-> after_url]]),
         NativeClient_analyze_changes_call(native, before_tree, before_url,
                                           after_tree, after_url, fresh))

NativeClient_save_cache ==
    Call(Request("save_cache", "native", 0, NoBody),
         Return([native EXCEPT !.cache = cache_save(@)], NoBody, NoUse))

NativeClient_discard_cache ==
    Call(Request("discard_cache", "native", 0, NoBody),
         Return([native EXCEPT !.cache = cache_discard(@)], NoBody, NoUse))

NativeClient_stats ==
    Call(Request("stats", "native", 0, NoBody),
         Return(native, Session_stats(native), NoUse))


\* a do call of the library that ended as st: the client's session and the
\* driver are as the call left them
Do_finish(request, st) ==
    /\ calls < MaxCalls
    /\ req' = request
    /\ native' = st.session
    /\ driver' = st.driver
    /\ trace' = st.trace
    /\ resp' = DoResult(st)
    /\ calls' = calls + 1
    /\ UNCHANGED <<current, sessions, order, created, deleted, area, loop>>

\* Alumni.do(goal)
Alumni_do(goal, scripts) ==
    Do_finish(Request("do", "native", 0, [goal |-> goal, area |-> None]),
              Do_call(native, driver, <<>>, current, goal, scripts, None,
                      RETRIES, 1))

\* Area.do(goal) on the Area object Alumni.area returned
Area_do(goal, scripts) ==
    /\ area # None
    /\ Do_finish(Request("do", "native", 0, [goal |-> goal, area |-> area]),
                 Do_call(native, driver, <<>>, current, goal, scripts, area,
                         RETRIES, 1))

\* Alumni.check(statement), Alumni.get(data) and Alumni.find(description)
Alumni_method(method, text, vision, freshes, cast) ==
    /\ calls < MaxCalls
    /\ req' = Request("call", "native", 0,
                      [method |-> method, text |-> text, vision |-> vision])
    /\ native' = Alumni_call(method, native, driver, <<>>, text, vision,
                             freshes, cast, RETRIES, 1).session
    /\ trace' = Alumni_call(method, native, driver, <<>>, text, vision,
                            freshes, cast, RETRIES, 1).trace
    /\ resp' = Alumni_returned(Alumni_call(method, native, driver, <<>>, text,
                                           vision, freshes, cast, RETRIES, 1))
    /\ calls' = calls + 1
    /\ UNCHANGED <<current, sessions, order, created, deleted, driver, area,
                   loop>>

\* Alumni.area(description) that answered r: the Area holds the tree that
\* was read, scoped to the area found
Area_init(request, r) ==
    /\ r.resp.used.call.chained => calls < MaxCalls
    /\ req' = request
    /\ native' = r.session
    /\ resp' = r.resp
    /\ calls' = IF r.resp.used.call.chained THEN calls + 1 ELSE calls
    /\ area' = IF r.resp.raised THEN area
               ELSE request.args.accessibility_tree
    /\ UNCHANGED <<current, sessions, order, created, deleted, driver, trace,
                   loop>>

\* Alumni.area(description)
Alumni_area(description, fresh) ==
    Area_init(Request("area", "native", 0,
                      [description |-> description,
                       accessibility_tree |-> accessibility_tree(driver)]),
              NativeClient_find_area_call(native, description,
                                          accessibility_tree(driver), fresh))


(***************************************************************************)
(* The event loop of the server.  Every handler of main.py is an           *)
(* `async def`, so it runs as a coroutine on the one event loop of the     *)
(* process uvicorn.run starts, and a coroutine leaves the loop to another  *)
(* one only where it awaits.  Requests arrive at any time and wait as      *)
(* tasks; the loop takes any waiting task and runs it until it awaits or   *)
(* returns.  A task holds its request and, once it was suspended, the      *)
(* session as its handler had read it.                                     *)
(***************************************************************************)
MaxTasks == 3

\* handlers that can be left between reading the session and writing it,
\* as plain `def` handlers run in the threads of a pool can
awaits_anywhere(op) == TRUE

\* whether the handler of `op` awaits between reading the session's state
\* and writing it: no handler of main.py awaits anywhere
awaits(op) == FALSE

Task(n, sid, op, args, fresh) ==
    [n |-> n, sid |-> sid, op |-> op, args |-> args, fresh |-> fresh,
     suspended |-> FALSE, read |-> NoSession]

\* what the handler of a task makes of the session it read
Handled(s, q) ==
    CASE q.op = "areas" ->
            choose_area_found(s, q.args.description,
                              q.args.accessibility_tree, q.fresh)
      [] q.op = "add_example" ->
            add_example_found(s, current, q.args.goal, q.args.actions)
      [] q.op = "clear_examples" -> clear_examples_found(s)

\* the session after the handler wrote what it assigns: the usage of the
\* agent it called and the cache, or the examples of the Planner
Written(s, computed, op) ==
    IF op = "areas"
    THEN [s EXCEPT !.usage["area"] = computed.usage["area"],
                   !.cache = computed.cache]
    ELSE [s EXCEPT !.examples = computed.examples]

\* a request arrives while others may be waiting
accept(sid, op, args, fresh) ==
    /\ loop.accepted < MaxTasks
    /\ loop' = [loop EXCEPT
                  !.accepted = @ + 1,
                  !.ready = @ \cup {Task(loop.accepted + 1, sid, op, args,
                                         fresh)}]
    /\ UNCHANGED <<current, native, sessions, order, created, deleted, calls,
                   req, resp, driver, area, trace>>

\* the handler of task q returns r and the response is sent
finish(q, r) ==
    /\ Routed(Request(q.op, "http", q.sid, q.args),
              [r EXCEPT !.session = Written(sessions[q.sid], r.session, q.op)])
    /\ loop' = [loop EXCEPT !.ready = @ \ {q}, !.done = Append(@, q)]
    /\ UNCHANGED <<driver, area, trace>>

\* the loop runs a waiting task until it awaits or returns
run(q) ==
    /\ q \in loop.ready
    /\ q.sid \in DOMAIN sessions
    /\ IF ~q.suspended /\ awaits(q.op)
       THEN /\ loop' = [loop EXCEPT
                          !.ready = (@ \ {q}) \cup
                              {[q EXCEPT !.suspended = TRUE,
                                         !.read = sessions[q.sid]]}]
            /\ UNCHANGED <<current, native, sessions, order, created, deleted,
                           calls, req, resp, driver, area, trace>>
       ELSE finish(q, Handled(IF q.suspended THEN q.read
                              ELSE sessions[q.sid], q))

(***************************************************************************)
(* HttpClient: a method posts to its route, raises on a status of 400 and  *)
(* more (response.raise_for_status()) and returns what it reads in the     *)
(* JSON body.                                                              *)
(***************************************************************************)
HttpClient_returns(op, r) ==
    IF r.resp.status >= 400
    THEN [raised |-> TRUE, value |-> NoBody]
    ELSE [raised |-> FALSE,
          value |->
            CASE op = "statements" ->
                    [result |-> loosely_typecast(r.resp.body.result),
                     explanation |-> r.resp.body.explanation]
              [] op = "elements" -> r.resp.body.elements[1]
              [] op = "clear_examples" -> NoBody
              [] OTHER -> r.resp.body]

(***************************************************************************)
(* HttpClient: the timeout, in seconds, it gives the request of each       *)
(* endpoint that calls an agent.                                           *)
(***************************************************************************)
timeout_plans == 120
timeout_steps == 120
timeout_statements == 120
timeout_areas == 60
timeout_elements == 60

\* the timeout of the HttpClient method that posts to the endpoint
HttpClient_timeout(op) ==
    CASE op = "plans"      -> timeout_plans
      [] op = "steps"      -> timeout_steps
      [] op = "statements" -> timeout_statements
      [] op = "areas"      -> timeout_areas
      [] op = "elements"   -> timeout_elements

\* time.sleep over a whole retry loop: the seconds slept in all
RECURSIVE time_slept(_)
time_slept(slept) ==
    IF slept = <<>> THEN 0 ELSE Head(slept) + time_slept(Tail(slept))

(***************************************************************************)
(* Inputs of the requests and answers of the provider.                     *)
(***************************************************************************)
Goals == {<<"g">>, <<>>}

Steps == {<<>>, <<" ", "\t">>, <<"g", "o">>, <<" ", "g", "o", "\n">>}

Urls == {"", "https://e.com/1", "https://e.com/2"}

\* the provider fails the call with an error that is not retried
Failure ==
    [errors |-> <<"AuthenticationError">>, out |-> NoOutput,
     usage_metadata |-> ZeroUsage]

Answers(outputs) ==
    {Failure} \cup
    {[errors |-> <<>>, out |-> o, usage_metadata |-> u] :
        o \in outputs, u \in UsageMetadata}

\* Plan objects in structured mode, message texts in unstructured mode
PlannerOutputs(provider) ==
    IF provider \notin UNSTRUCTURED_OUTPUT_MODELS
    THEN {[NoOutput EXCEPT !.explanation = "plan",
                           !.steps = << <<"g", "o">>, <<>>, <<" ">> >>]}
    ELSE {[NoOutput EXCEPT !.value =
              <<" ", "<SEP", ">", "g", "o", "<SEP", ">", " ",
                "<SEP", ">", "n", "o", "o", "p", "<SEP", ">">>]}

ToolCall(tool, id, text) == [tool |-> tool, id |-> id, text |-> text]

ActorOutputs ==
    {[NoOutput EXCEPT !.explanation = "because",
                      !.tool_calls = <<ToolCall("click", 1, "")>>],
     [NoOutput EXCEPT !.tool_calls = <<ToolCall("click", 2, ""),
                                       ToolCall("type", 1, "Buy milk")>>],
     [NoOutput EXCEPT !.tool_calls = <<ToolCall("click", 3, "")>>]}

RetrieverOutputs ==
    {[NoOutput EXCEPT !.explanation = "found",
                      !.value = <<"a", "<SEP", ">", "b">>],
     [NoOutput EXCEPT !.explanation = "found", !.value = <<"t">>]}

IdOutputs ==
    {[NoOutput EXCEPT !.explanation = "chosen", !.id = i] : i \in {1, 3}}

ChangesOutputs ==
    {[NoOutput EXCEPT !.content = <<"X">>],
     [NoOutput EXCEPT !.content = <<"A", "B">>]}

Examples == {<< <<"g", "o">> >>, << <<"a">>, <<"b">> >>}


\* the provider fails, or answers one of the outputs with one usage
One(outputs) ==
    {Failure} \cup
    {[errors |-> <<>>, out |-> o,
      usage_metadata |-> [input_tokens |-> 2, output_tokens |-> 1,
                          total_tokens |-> 3]] : o \in outputs}

(***************************************************************************)
(* Spec: the server with every route, driven with one goal and one tree    *)
(* per route, on sessions that all plan.                                   *)
(***************************************************************************)
ServerInit ==
    /\ Init
    /\ current = "anthropic"
    /\ native = Session("chromium", TRUE)

Next ==
    \/ \E provider \in {"anthropic", "bogus"},
          platform \in {"chromium", "windows"} :
            create_session(provider, platform, TRUE)
    \/ \E sid \in Ids : delete_session(sid)
    \/ list_sessions
    \/ \E sid \in Ids : get_session_stats(sid)
    \/ \E sid \in Ids, fresh \in One(PlannerOutputs(current)) :
            plan_actions(sid, <<"g">>, "treeA", fresh)
    \/ \E sid \in Ids, fresh \in One({[NoOutput EXCEPT
                !.tool_calls = <<ToolCall("click", 1, "")>>]}) :
            plan_step_actions(sid, <<"g">>, <<"g", "o">>, "treeA", fresh)
    \/ \E sid \in Ids, fresh \in One({[NoOutput EXCEPT !.value = <<"t">>]}) :
            execute_statement(sid, <<"g">>, "treeA", "title", "", "", fresh)
    \/ \E sid \in Ids, fresh \in One({[NoOutput EXCEPT !.id = 1]}) :
            choose_area(sid, <<"g">>, "treeN", fresh)
    \/ \E sid \in Ids : add_example(sid, <<"g">>, << <<"g", "o">> >>)
    \/ \E sid \in Ids, fresh \in One({[NoOutput EXCEPT !.id = 1]}) :
            find_element(sid, <<"g">>, "treeA", fresh)
    \/ \E sid \in Ids, fresh \in One({[NoOutput EXCEPT !.content = <<"X">>]}) :
            analyze_changes(sid, "treeA", "", "treeB", "", fresh)
    \/ \E sid \in Ids : clear_examples(sid)
    \/ \E sid \in Ids : save_cache(sid)
    \/ \E sid \in Ids : discard_cache(sid)

Spec == ServerInit /\ [][Next]_vars

(***************************************************************************)
(* RegistrySpec: the registry routes, with the routes that read and write  *)
(* a session without calling an agent.                                     *)
(***************************************************************************)
RegistryNext ==
    \/ \E provider \in {"anthropic", "bogus"},
          platform \in {"chromium", "windows"}, planner \in BOOLEAN :
            create_session(provider, platform, planner)
    \/ \E sid \in Ids : delete_session(sid)
    \/ list_sessions
    \/ \E sid \in Ids : get_session_stats(sid)
    \/ \E sid \in Ids, actions \in Examples : add_example(sid, <<"g">>, actions)
    \/ \E sid \in Ids : clear_examples(sid)

RegistrySpec == ServerInit /\ [][RegistryNext]_vars

(***************************************************************************)
(* LlmSpec: sessions created on one manager, over HTTP and in process,     *)
(* with and without a chat model of the caller.                            *)
(***************************************************************************)
LlmNext ==
    \/ create_session("anthropic", "chromium", TRUE)
    \/ \E planner \in BOOLEAN, llm \in {None} \cup Handles :
            SessionManager_create("chromium", planner, llm)
    \/ \E sid \in Ids : delete_session(sid)
    \/ list_sessions
    \/ \E sid \in Ids : get_session_stats(sid)

LlmSpec == ServerInit /\ [][LlmNext]_vars

(***************************************************************************)
(* A server on which one session was created, next to one NativeClient:    *)
(* the state the specifications of the single operations start from.       *)
(***************************************************************************)
Serving(providers, planners) ==
    /\ current \in providers
    /\ native \in {Session("chromium", planner) : planner \in planners}
    /\ sessions \in {1 :> Session("chromium", planner) : planner \in planners}
    /\ order = <<1>>
    /\ created = {1}
    /\ deleted = {}
    /\ calls = 0
    /\ req = Request("create_session", "http", 0,
                     [provider |-> "anthropic", platform |-> "chromium",
                      tools |-> <<>>, planner |-> TRUE])
    /\ resp = Ok(NoSession, [session_id |-> 1], NoUse).resp
    /\ driver = [page |-> 0]
    /\ area = None
    /\ trace = <<>>
    /\ loop = [ready |-> {}, accepted |-> 0, done |-> <<>>]

(***************************************************************************)
(* PlansSpec: planning, over HTTP and in process, with and without planner *)
(***************************************************************************)
PlansNext ==
    \/ \E sid \in Ids, goal \in Goals, tree \in RawTrees,
          fresh \in One(PlannerOutputs(current)) :
            plan_actions(sid, goal, tree, fresh)
    \/ \E goal \in Goals, tree \in RawTrees,
          fresh \in One(PlannerOutputs(current)) :
            NativeClient_plan_actions(goal, tree, fresh)
    \/ \E sid \in Ids : get_session_stats(sid)
    \/ NativeClient_stats

PlansSpec ==
    Serving({"anthropic", "ollama"}, BOOLEAN) /\ [][PlansNext]_vars

(***************************************************************************)
(* CacheSpec: one session asked the same and other prompts repeatedly,     *)
(* with the cache saved and discarded in between.                          *)
(***************************************************************************)
CacheNext ==
    \/ \E sid \in Ids, step \in {<<"g", "o">>, <<"u", "p">>},
          fresh \in Answers({[NoOutput EXCEPT
                !.tool_calls = <<ToolCall("click", 1, "")>>]}) :
            plan_step_actions(sid, <<"g">>, step, "treeA", fresh)
    \/ \E sid \in Ids, fresh \in Answers({[NoOutput EXCEPT !.id = 1]}) :
            choose_area(sid, <<"g">>, "treeN", fresh)
    \/ \E sid \in Ids : get_session_stats(sid)
    \/ \E sid \in Ids : save_cache(sid)
    \/ \E sid \in Ids : discard_cache(sid)

CacheSpec == Serving({"anthropic"}, {TRUE}) /\ [][CacheNext]_vars

(***************************************************************************)
(* StepsSpec: one step at a time, over HTTP and in process, on every tree  *)
(* and with every answer of the Actor.                                     *)
(***************************************************************************)
StepsNext ==
    \/ \E sid \in Ids, step \in {<<"g", "o">>, <<" ">>}, tree \in RawTrees,
          fresh \in One(ActorOutputs) :
            plan_step_actions(sid, <<"g">>, step, tree, fresh)
    \/ \E step \in {<<"g", "o">>, <<" ">>}, tree \in RawTrees,
          fresh \in One(ActorOutputs) :
            NativeClient_execute_action(<<"g">>, step, tree, fresh)

StepsSpec == Serving({"anthropic"}, {TRUE}) /\ [][StepsNext]_vars

(***************************************************************************)
(* ActorSpec: the Actor given every kind of step on one tree.              *)
(***************************************************************************)
ActorNext ==
    \/ \E sid \in Ids, step \in Steps,
          fresh \in One({[NoOutput EXCEPT
                !.explanation = "because",
                !.tool_calls = <<ToolCall("click", 1, "")>>]}) :
            plan_step_actions(sid, <<"g">>, step, "treeA", fresh)
    \/ \E step \in Steps,
          fresh \in One({[NoOutput EXCEPT
                !.explanation = "because",
                !.tool_calls = <<ToolCall("click", 1, "")>>]}) :
            NativeClient_execute_action(<<"g">>, step, "treeA", fresh)
    \/ \E sid \in Ids : get_session_stats(sid)
    \/ NativeClient_stats

ActorSpec == Serving({"anthropic"}, {TRUE}) /\ [][ActorNext]_vars

(***************************************************************************)
(* ChangesSpec: the analysis of a change, over HTTP and in process.        *)
(***************************************************************************)
ChangesNext ==
    \/ \E sid \in Ids, before_url \in Urls, after_url \in Urls,
          after_tree \in {"treeA", "treeB"}, fresh \in One(ChangesOutputs) :
            analyze_changes(sid, "treeA", before_url, after_tree, after_url,
                            fresh)
    \/ \E before_url \in Urls, after_url \in Urls,
          after_tree \in {"treeA", "treeB"}, fresh \in One(ChangesOutputs) :
            NativeClient_analyze_changes("treeA", before_url, after_tree,
                                         after_url, fresh)

ChangesSpec == Serving({"anthropic"}, {TRUE}) /\ [][ChangesNext]_vars


(***************************************************************************)
(* RetrySpec: one agent route, over HTTP and in process, against a         *)
(* provider that fails any number of attempts before it answers.           *)
(***************************************************************************)
\* the provider fails k attempts with `error` and then answers
Flaky(k, error, out) ==
    [errors |-> [n \in 1..k |-> error], out |-> out,
     usage_metadata |-> [input_tokens |-> 2, output_tokens |-> 1,
                         total_tokens |-> 3]]

Scripts ==
    {Flaky(k, "RateLimitError", [NoOutput EXCEPT !.id = 1]) :
        k \in 0..(tries + 1)}
    \cup {Flaky(1, "InternalServerError", [NoOutput EXCEPT !.id = 1]),
          Flaky(1, "ValueError", [NoOutput EXCEPT !.id = 1]),
          [Flaky(2, "RateLimitError", [NoOutput EXCEPT !.id = 1])
              EXCEPT !.errors[2] = "AuthenticationError"]}

RetryNext ==
    \/ \E sid \in Ids, description \in Goals, fresh \in Scripts :
            choose_area(sid, description, "treeN", fresh)
    \/ \E description \in Goals, fresh \in Scripts :
            NativeClient_find_area(description, "treeA", fresh)

RetrySpec == Serving({"anthropic"}, {TRUE}) /\ [][RetryNext]_vars

(***************************************************************************)
(* ErrorsSpec: the session-scoped POST routes on trees that parse and one  *)
(* that does not, against a provider that fails or answers with ids the    *)
(* tree maps or does not map.                                              *)
(***************************************************************************)
ErrorsNext ==
    \/ \E sid \in Ids, tree \in {"treeA", "malformed"},
          fresh \in One(PlannerOutputs(current)) :
            plan_actions(sid, <<"g">>, tree, fresh)
    \/ \E sid \in Ids, tree \in {"treeA", "malformed"},
          fresh \in One({[NoOutput EXCEPT
                !.tool_calls = <<ToolCall("click", i, "")>>] : i \in {1, 3}}) :
            plan_step_actions(sid, <<"g">>, <<"g", "o">>, tree, fresh)
    \/ \E sid \in Ids, tree \in {"treeA", "malformed"},
          fresh \in One({[NoOutput EXCEPT !.value = <<"t">>]}) :
            execute_statement(sid, <<"g">>, tree, "title", "", "", fresh)
    \/ \E sid \in Ids, tree \in {"treeN", "treeA", "malformed"},
          fresh \in One(IdOutputs) :
            choose_area(sid, <<"g">>, tree, fresh)
    \/ \E sid \in Ids : add_example(sid, <<"g">>, << <<"g", "o">> >>)
    \/ \E sid \in Ids, tree \in {"treeA", "malformed"},
          fresh \in One(IdOutputs) :
            find_element(sid, <<"g">>, tree, fresh)
    \/ \E sid \in Ids, after_tree \in {"treeB", "malformed"},
          fresh \in One({[NoOutput EXCEPT !.content = <<"X">>]}) :
            analyze_changes(sid, "treeA", "", after_tree, "", fresh)
    \/ \E sid \in Ids : save_cache(sid)

ErrorsSpec == Serving({"anthropic"}, {TRUE}) /\ [][ErrorsNext]_vars

(***************************************************************************)
(* ValidationSpec: requests whose body fits the request model and requests *)
(* whose body does not, for registered and unregistered session ids.       *)
(***************************************************************************)
BodyRoutes ==
    {"plans", "steps", "statements", "areas", "add_example", "elements",
     "changes"}

\* bodies that do not fit: no JSON object or an empty one, one field of the
\* model alone, and for POST /v1/sessions the tools alone or a platform
\* outside the enumeration
BadBodies(op) ==
    {NoBody}
    \cup (IF op = "create_session"
          THEN {[tools |-> <<>>],
                [platform |-> "windows", provider |-> "anthropic",
                 tools |-> <<>>]}
          ELSE IF op = "changes"
          THEN {[before |-> [accessibility_tree |-> "treeA", url |-> ""]]}
          ELSE IF op \in {"areas", "elements"}
          THEN {[description |-> <<"g">>]}
          ELSE IF op = "statements"
          THEN {[statement |-> <<"g">>]}
          ELSE {[goal |-> <<"g">>]})

ValidationNext ==
    \/ \E planner \in BOOLEAN : create_session("anthropic", "chromium", planner)
    \/ \E sid \in Ids : delete_session(sid)
    \/ \E sid \in Ids : get_session_stats(sid)
    \/ \E sid \in Ids : add_example(sid, <<"g">>, << <<"g", "o">> >>)
    \/ \E sid \in Ids, fresh \in One({[NoOutput EXCEPT !.id = 1]}) :
            choose_area(sid, <<"g">>, "treeN", fresh)
    \/ \E op \in BodyRoutes \cup {"create_session"}, sid \in Ids :
          \E args \in BadBodies(op) : unprocessable(op, sid, args)

ValidationSpec == ServerInit /\ [][ValidationNext]_vars

(***************************************************************************)
(* ExamplesSpec: examples added and cleared, over HTTP and in process.     *)
(***************************************************************************)
ExamplesNext ==
    \/ \E sid \in Ids, goal \in Goals, actions \in Examples :
            add_example(sid, goal, actions)
    \/ \E sid \in Ids : clear_examples(sid)
    \/ \E goal \in Goals, actions \in Examples :
            NativeClient_add_example(goal, actions)
    \/ NativeClient_clear_examples
    \/ \E sid \in Ids : get_session_stats(sid)

ExamplesSpec ==
    Serving({"anthropic", "ollama"}, BOOLEAN) /\ [][ExamplesNext]_vars

(***************************************************************************)
(* RetrieverSpec: statements whose value the model gives as one item or as *)
(* items joined by separators, exact or near-miss, with or without a stray *)
(* separator at the ends.                                                  *)
(***************************************************************************)
ItemLists ==
    {<< <<"t">> >>,
     << <<" ", "t">> >>,
     << <<"a">>, <<" ", "b">> >>,
     << <<"a">>, <<"b", " ">>, <<"c">> >>}

\* the character a model puts where the separator has ">"
Lasts == {">", "]", "\n"}

Strays == {"", "leading", "trailing", "both"}

\* the items joined by "<SEP" and the characters of lasts
RECURSIVE Joined(_, _)
Joined(items, lasts) ==
    IF Len(items) = 1 THEN items[1]
    ELSE items[1] \o <<"<SEP", lasts[1]>> \o Joined(Tail(items), Tail(lasts))

WithStray(value, stray) ==
    (IF stray \in {"leading", "both"} THEN LIST_SEPARATOR ELSE <<>>)
        \o value
        \o (IF stray \in {"trailing", "both"} THEN LIST_SEPARATOR ELSE <<>>)

RetrieverValues ==
    {WithStray(Joined(items, lasts), stray) :
        items \in ItemLists, lasts \in [1..2 -> Lasts], stray \in Strays}

RetrieverNext ==
    \/ \E sid \in Ids,
          fresh \in One({[NoOutput EXCEPT !.explanation = "found",
                                          !.value = raw] :
                             raw \in RetrieverValues}) :
            execute_statement(sid, <<"g">>, "treeA", "title", "", "", fresh)
    \/ \E fresh \in One(RetrieverOutputs) :
            NativeClient_retrieve(<<"g">>, "treeA", "title", "", "", fresh)

RetrieverSpec == Serving({"anthropic"}, {TRUE}) /\ [][RetrieverNext]_vars

(***************************************************************************)
(* CheckSpec: statements verified over HTTP, and checks of the client      *)
(* library and of the MCP tool on the in-process client.                   *)
(***************************************************************************)
CheckOutputs ==
    {[NoOutput EXCEPT !.explanation = "found", !.value = v] :
        v \in {<<"true">>, <<"false">>, <<>>}}

\* the results of retrieve that bool() can make False
Falsy ==
    SUBSET {loosely_typecast(retrieved_value(o.value)) : o \in CheckOutputs}

CheckNext ==
    \/ \E sid \in Ids, tree \in {"treeA", "malformed"},
          fresh \in One(CheckOutputs) :
            execute_statement(sid, <<"g">>, tree, "title", "", "", fresh)
    \/ \E tree \in {"treeA", "malformed"}, falsy \in Falsy,
          freshes \in [1..RETRIES -> One(CheckOutputs)] :
            Alumni_check(<<"g">>, tree, FALSE, freshes, falsy)
    \/ \E falsy \in Falsy, freshes \in [1..RETRIES -> One(CheckOutputs)] :
            handle_check(<<"g">>, "treeA", FALSE, freshes, falsy)

CheckSpec == Serving({"anthropic"}, {TRUE}) /\ [][CheckNext]_vars

(***************************************************************************)
(* AreasSpec: areas chosen and elements found, over HTTP and in process,   *)
(* on trees whose raw ids are strings and integers.                        *)
(***************************************************************************)
AreasNext ==
    \/ \E sid \in Ids, tree \in {"treeA", "treeN"}, fresh \in One(IdOutputs) :
            choose_area(sid, <<"g">>, tree, fresh)
    \/ \E sid \in Ids, tree \in {"treeA", "treeN"}, fresh \in One(IdOutputs) :
            find_element(sid, <<"g">>, tree, fresh)
    \/ \E tree \in {"treeA", "treeN"}, fresh \in One(IdOutputs) :
            NativeClient_find_area(<<"g">>, tree, fresh)
    \/ \E tree \in {"treeA", "treeN"}, fresh \in One(IdOutputs) :
            NativeClient_find_element(<<"g">>, tree, fresh)

AreasSpec == Serving({"anthropic"}, {TRUE}) /\ [][AreasNext]_vars

(***************************************************************************)
(* PlatformSpec: sessions created over HTTP and in process for platforms   *)
(* the server knows and does not know, and the routes that process trees.  *)
(***************************************************************************)
Platforms == {"chromium", "xcuitest", "uiautomator2"}

PlatformNext ==
    \/ \E platform \in {"chromium", "xcuitest", "windows"} :
            create_session("anthropic", platform, TRUE)
    \/ \E planner \in BOOLEAN :
            SessionManager_create("windows", planner, None)
    \/ \E sid \in Ids, fresh \in One(PlannerOutputs(current)) :
            plan_actions(sid, <<"g">>, "treeA", fresh)
    \/ \E sid \in Ids, fresh \in One({[NoOutput EXCEPT
                !.tool_calls = <<ToolCall("click", 1, "")>>]}) :
            plan_step_actions(sid, <<"g">>, <<"g", "o">>, "treeA", fresh)
    \/ \E sid \in Ids, fresh \in One({[NoOutput EXCEPT !.value = <<"t">>]}) :
            execute_statement(sid, <<"g">>, "treeA", "title", "", "", fresh)
    \/ \E sid \in Ids, fresh \in One({[NoOutput EXCEPT !.id = 1]}) :
            choose_area(sid, <<"g">>, "treeN", fresh)
    \/ \E sid \in Ids, fresh \in One({[NoOutput EXCEPT !.id = 1]}) :
            find_element(sid, <<"g">>, "treeA", fresh)
    \/ \E sid \in Ids, fresh \in One({[NoOutput EXCEPT !.content = <<"X">>]}) :
            analyze_changes(sid, "treeA", "", "treeB", "", fresh)

PlatformSpec == ServerInit /\ [][PlatformNext]_vars

(***************************************************************************)
(* UsageSpec: agent routes, over HTTP and in process, against a provider   *)
(* that answers at once, answers after transient failures, or fails, with  *)
(* ids the tree maps and ids it does not map.                              *)
(***************************************************************************)
\* the provider fails k attempts with a rate limit and then answers `out`
\* reporting the usage u
UsageScripts(outputs) ==
    {Failure} \cup
    {[errors |-> [n \in 1..k |-> "RateLimitError"], out |-> o,
      usage_metadata |-> u] :
        k \in {0, 2, tries}, o \in outputs, u \in UsageMetadata}

UsageNext ==
    \/ \E sid \in Ids, fresh \in UsageScripts(IdOutputs) :
            choose_area(sid, <<"g">>, "treeN", fresh)
    \/ \E sid \in Ids, step \in {<<"g", "o">>, <<"u", "p">>},
          fresh \in UsageScripts({[NoOutput EXCEPT
                !.tool_calls = <<ToolCall("click", i, "")>>] : i \in {1, 3}}) :
            plan_step_actions(sid, <<"g">>, step, "treeA", fresh)
    \/ \E fresh \in UsageScripts(IdOutputs) :
            NativeClient_find_area(<<"g">>, "treeA", fresh)
    \/ \E sid \in Ids : get_session_stats(sid)
    \/ NativeClient_stats

UsageSpec == Serving({"anthropic"}, {TRUE}) /\ [][UsageNext]_vars

(***************************************************************************)
(* DoSpec: goals done by the library on the page and within an area, with  *)
(* and without planner, against a provider that answers plans of one and   *)
(* of two steps and tool calls the tree maps or does not map, or fails.    *)
(***************************************************************************)
\* plans of two steps and of one step; the explanation of the second is the
\* text of the goal
DoPlans ==
    {[NoOutput EXCEPT !.explanation = <<"p">>,
                      !.steps = << <<"g", "o">>, <<"u", "p">> >>],
     [NoOutput EXCEPT !.explanation = <<"g">>,
                      !.steps = << <<"g", "o">> >>]}

DoActs ==
    {[NoOutput EXCEPT !.explanation = <<"b">>,
                      !.tool_calls = <<ToolCall("click", 1, "")>>],
     [NoOutput EXCEPT !.explanation = <<"b">>,
                      !.tool_calls = <<ToolCall("click", 2, ""),
                                       ToolCall("type", 1, "Buy milk")>>],
     [NoOutput EXCEPT !.explanation = <<"b">>,
                      !.tool_calls = <<ToolCall("click", 3, "")>>]}

\* the provider fails, or answers one of the outputs
DoOne(outputs) ==
    {[Failure EXCEPT !.out.explanation = <<>>]} \cup
    {[errors |-> <<>>, out |-> o,
      usage_metadata |-> [input_tokens |-> 2, output_tokens |-> 1,
                          total_tokens |-> 3]] : o \in outputs}

\* the answers of the provider during the first attempt of a do call and
\* during the attempt made after it failed
DoScripts ==
    {<<[plan |-> plan, acts |-> acts], again>> :
        plan \in DoOne(DoPlans), acts \in [1..2 -> DoOne(DoActs)],
        again \in {[plan |-> plan2, acts |-> [i \in 1..2 |-> act2]] :
                      plan2 \in DoOne({[NoOutput EXCEPT
                                        !.explanation = <<"p">>,
                                        !.steps = << <<"g", "o">> >>]}),
                      act2 \in DoOne({[NoOutput EXCEPT
                                        !.explanation = <<"b">>,
                                        !.tool_calls =
                                           <<ToolCall("click", 1, "")>>]})}}

DoNext ==
    \/ \E scripts \in DoScripts : Alumni_do(<<"g">>, scripts)
    \/ \E fresh \in One(IdOutputs) : Alumni_area(<<"g">>, fresh)
    \/ \E scripts \in DoScripts : Area_do(<<"g">>, scripts)
    \/ NativeClient_stats

DoSpec == Serving({"anthropic"}, BOOLEAN) /\ [][DoNext]_vars

(***************************************************************************)
(* TimeoutSpec: every endpoint HttpClient gives a timeout of more than 30  *)
(* seconds and that calls an agent once, against a provider that hits the  *)
(* rate limit for any number of attempts.                                  *)
(***************************************************************************)
RateLimited(outputs) ==
    {Flaky(k, "RateLimitError", out) :
        k \in {0, 1, tries - 1, tries}, out \in outputs}

TimeoutNext ==
    \/ \E sid \in Ids, fresh \in RateLimited(PlannerOutputs(current)) :
            plan_actions(sid, <<"g">>, "treeA", fresh)
    \/ \E sid \in Ids, fresh \in RateLimited(ActorOutputs) :
            plan_step_actions(sid, <<"g">>, <<"g", "o">>, "treeA", fresh)
    \/ \E sid \in Ids, fresh \in RateLimited(RetrieverOutputs) :
            execute_statement(sid, <<"g">>, "treeA", "title", "", "", fresh)
    \/ \E sid \in Ids, fresh \in RateLimited(IdOutputs) :
            choose_area(sid, <<"g">>, "treeA", fresh)
    \/ \E sid \in Ids, fresh \in RateLimited(IdOutputs) :
            find_element(sid, <<"g">>, "treeA", fresh)

TimeoutSpec == Serving({"anthropic"}, {TRUE}) /\ [][TimeoutNext]_vars

(***************************************************************************)
(* TotalsSpec: sessions created, used by agent calls and deleted, with the *)
(* statistics of one session and of the whole registry read in between.    *)
(***************************************************************************)
\* the provider answers every call at the first attempt
Answering(outputs) == {fresh \in Answers(outputs) : fresh.errors = <<>>}

TotalsNext ==
    \/ \E planner \in BOOLEAN : create_session("anthropic", "chromium", planner)
    \/ \E sid \in Ids : delete_session(sid)
    \/ \E sid \in Ids, fresh \in Answering(IdOutputs) :
            choose_area(sid, <<"g">>, "treeA", fresh)
    \/ \E sid \in Ids : get_session_stats(sid)
    \/ get_total_stats

TotalsSpec == ServerInit /\ [][TotalsNext]_vars

(***************************************************************************)
(* ConcurrentSpec: requests for one session that arrive while others wait: *)
(* Area agent calls, examples added and examples cleared.                  *)
(***************************************************************************)
NoFresh == [errors |-> <<>>, out |-> NoOutput, usage_metadata |-> ZeroUsage]

ConcurrentNext ==
    \/ \E description \in {<<"g">>, <<"h">>}, fresh \in Answering(IdOutputs) :
            accept(1, "areas",
                   [description |-> description,
                    accessibility_tree |-> "treeA"], fresh)
    \/ \E actions \in Examples :
            accept(1, "add_example", [goal |-> <<"g">>, actions |-> actions],
                   NoFresh)
    \/ accept(1, "clear_examples", NoBody, NoFresh)
    \/ \E q \in loop.ready : run(q)

ConcurrentSpec == Serving({"anthropic"}, {TRUE}) /\ [][ConcurrentNext]_vars

(***************************************************************************)
(* CreateSpec: sessions created, with every stage of the creation failing  *)
(* or none, listed, used and deleted.                                      *)
(***************************************************************************)
CreateNext ==
    \/ \E provider \in {"anthropic", "bogus"}, planner \in BOOLEAN,
          breaks \in CreationStages \cup {""} :
            create_session_with(provider, "chromium", planner, breaks)
    \/ \E sid \in Ids : delete_session(sid)
    \/ list_sessions
    \/ \E sid \in Ids : get_session_stats(sid)
    \/ \E sid \in Ids, actions \in Examples : add_example(sid, <<"g">>, actions)

CreateSpec == ServerInit /\ [][CreateNext]_vars

(***************************************************************************)
(* IsolationSpec: two sessions of different providers, planner flags and   *)
(* use, on one server.                                                     *)
(***************************************************************************)
IsolationNext ==
    \/ \E provider \in {"anthropic", "ollama"}, planner \in BOOLEAN :
            create_session(provider, "chromium", planner)
    \/ \E sid \in Ids : delete_session(sid)
    \/ \E sid \in Ids : get_session_stats(sid)
    \/ \E sid \in Ids, fresh \in Answering({[NoOutput EXCEPT !.id = 1]}) :
            choose_area(sid, <<"g">>, "treeA", fresh)
    \/ \E sid \in Ids : add_example(sid, <<"g">>, << <<"a">>, <<"b">> >>)
    \/ \E sid \in Ids : clear_examples(sid)
    \/ \E sid \in Ids : save_cache(sid)
    \/ \E sid \in Ids : discard_cache(sid)

IsolationSpec == ServerInit /\ [][IsolationNext]_vars

(***************************************************************************)
(* ListsSpec: the Retriever on values with repeated separators, blanks     *)
(* between separators and nothing but separators.                          *)
(***************************************************************************)
ListValues ==
    {<<"t">>,
     <<"a", "<SEP", ">", "b">>,
     <<"a", "<SEP", ">", "<SEP", ">", "b">>,
     <<"a", "<SEP", ">", " ", "<SEP", ">", "b">>,
     <<" ", "<SEP", ">", "a">>,
     <<"<SEP", ">", "<SEP", ">", "<SEP", ">">>,
     <<"<SEP", ">", " ", "<SEP", "]", " ", "<SEP", ">">>}

ListsNext ==
    \/ \E sid \in Ids, information \in {<<"g">>, <<"h">>},
          fresh \in Answering({[NoOutput EXCEPT !.explanation = "found",
                                                !.value = raw] :
                                  raw \in ListValues}) :
            execute_statement(sid, information, "treeA", "title", "", "",
                              fresh)
    \/ \E information \in {<<"g">>, <<"h">>},
          fresh \in Answering({[NoOutput EXCEPT !.explanation = "found",
                                                !.value = raw] :
                                  raw \in ListValues}) :
            NativeClient_retrieve(information, "treeA", "title", "", "",
                                  fresh)

ListsSpec == Serving({"anthropic"}, {TRUE}) /\ [][ListsNext]_vars

(***************************************************************************)
(* ModeSpec: sessions of structured-output and of unstructured-output      *)
(* providers on one server; Model.current is the process-wide default and  *)
(* create_session never assigns it.                                        *)
(***************************************************************************)
ModeInit ==
    /\ Init
    /\ current \in {"anthropic", "ollama"}
    /\ native = Session("chromium", TRUE)

ModeNext ==
    \/ \E provider \in {"anthropic", "ollama"} :
            create_session(provider, "chromium", TRUE)
    \/ \E sid \in Ids : add_example(sid, <<"g">>, << <<"a">>, <<"b">> >>)
    \/ \E sid \in Ids : clear_examples(sid)
    \/ \E sid \in Ids, fresh \in One(PlannerOutputs(current)) :
            plan_actions(sid, <<"g">>, "treeA", fresh)

ModeSpec == ModeInit /\ [][ModeNext]_vars

(***************************************************************************)
(* AttemptsSpec: do, check, get and find of Alumni against a provider that *)
(* answers or fails in each attempt, and a typecasting that makes the      *)
(* value "false" falsy, or not, and the value "NOOP" None, or not.         *)
(***************************************************************************)
RetrieveOutputs ==
    {[NoOutput EXCEPT !.explanation = "found", !.value = v] :
        v \in {<<"true">>, <<"false">>, <<"N", "O", "O", "P">>}}

Casts ==
    {[falsy |-> f, none |-> n] :
        f \in SUBSET {loosely_typecast(retrieved_value(<<"false">>))},
        n \in SUBSET {loosely_typecast(
                          retrieved_value(<<"N", "O", "O", "P">>))}}

AttemptsNext ==
    \/ \E scripts \in DoScripts : Alumni_do(<<"g">>, scripts)
    \/ \E method \in {"check", "get"}, vision \in BOOLEAN, cast \in Casts,
          freshes \in [1..RETRIES -> One(RetrieveOutputs)] :
            Alumni_method(method, <<"g">>, vision, freshes, cast)
    \/ \E freshes \in [1..RETRIES -> One(IdOutputs)] :
            Alumni_method("find", <<"g">>, FALSE, freshes,
                          [falsy |-> {}, none |-> {}])

AttemptsSpec == Serving({"anthropic"}, {TRUE}) /\ [][AttemptsNext]_vars

(***************************************************************************)
(* EquivSpec: sessions of the server and of a NativeClient that planned,   *)
(* chose areas and took examples, on trees whose raw ids are names (treeA) *)
(* and integers (treeN).                                                   *)
(***************************************************************************)
EquivTrees == {"treeA", "treeN"}

EquivNext ==
    \/ \E sid \in Ids, fresh \in One(PlannerOutputs(current)) :
            plan_actions(sid, <<"g">>, "treeA", fresh)
    \/ \E sid \in Ids, tree \in EquivTrees, fresh \in One(IdOutputs) :
            choose_area(sid, <<"g">>, tree, fresh)
    \/ \E sid \in Ids : add_example(sid, <<"g">>, << <<"g", "o">> >>)
    \/ \E sid \in Ids : clear_examples(sid)
    \/ \E tree \in EquivTrees, fresh \in One(IdOutputs) :
            NativeClient_find_area(<<"g">>, tree, fresh)
    \/ NativeClient_add_example(<<"g">>, << <<"g", "o">> >>)

EquivSpec == Serving({"anthropic", "ollama"}, {TRUE}) /\ [][EquivNext]_vars

(***************************************************************************)
(* Properties of the session registry.                                     *)
(***************************************************************************)
\* C1: list_sessions() holds an id exactly when create_session returned it
\* earlier and no later delete_session of it returned True, and it holds
\* each such id once: N creates give N distinct listed ids, and a delete
\* removes that one id and no other.
C1_ListedIffCreatedAndNotDeleted ==
    LET listed == SessionManager_list_sessions IN
    /\ {listed[i] : i \in DOMAIN listed} = created \ deleted
    /\ Len(listed) = Cardinality(created \ deleted)
    /\ DOMAIN sessions = created \ deleted
    /\ (req.op = "list_sessions" /\ resp.status = 200) =>
            resp.body.ids = listed

\* two sessions were created and the first of them deleted
C1_Witness ==
    /\ created = {1, 2}
    /\ deleted = {1}
    /\ SessionManager_list_sessions = <<2>>

\* C2: a DELETE of an id that is not registered answers 404, returns False
\* (nothing is recorded as deleted) and leaves the registry as it was; a
\* DELETE of a registered id answers 204 and removes it; so a DELETE of an
\* id that was deleted before answers 404.
C2_DeleteUnknownIs404 ==
    [][req'.op = "delete_session" =>
          /\ IF req'.sid \in DOMAIN sessions
             THEN /\ resp'.status = 204
                  /\ req'.sid \notin DOMAIN sessions'
                  /\ deleted' = deleted \cup {req'.sid}
             ELSE /\ resp'.status = 404
                  /\ resp'.error = "Session not found"
                  /\ sessions' = sessions
                  /\ order' = order
                  /\ deleted' = deleted
          /\ req'.sid \in deleted => resp'.status = 404]_vars

\* the DELETE of a session repeated: the second answer is 404
C2_Witness ==
    /\ req.op = "delete_session"
    /\ req.sid \in deleted
    /\ resp.status = 404
    /\ DOMAIN sessions # {}

(***************************************************************************)
(* Properties of the routes.                                               *)
(***************************************************************************)
SessionScoped ==
    {"stats", "plans", "steps", "statements", "areas", "elements", "changes",
     "add_example", "clear_examples", "save_cache", "discard_cache"}

\* C3: a request to a session-scoped route (stats, plans, steps, statements,
\* areas, elements, changes, examples POST and DELETE, caches POST and
\* DELETE) whose session id is not registered answers 404 with the error
\* "Session not found", calls no agent, processes no tree, and leaves the
\* registry and every session as they were.
C3_UnknownSessionIs404 ==
    [][(req'.via = "http" /\ req'.op \in SessionScoped
            /\ req'.sid \notin DOMAIN sessions) =>
          /\ resp'.status = 404
          /\ resp'.error = "Session not found"
          /\ resp'.body = NoBody
          /\ resp'.used = NoUse
          /\ sessions' = sessions
          /\ order' = order
          /\ calls' = calls]_vars

\* an agent route asked for a session that was deleted, next to a live one
C3_Witness ==
    /\ req.via = "http"
    /\ req.op = "elements"
    /\ req.sid \in deleted
    /\ resp.status = 404
    /\ resp.error = "Session not found"
    /\ DOMAIN sessions # {}

\* C4: with planner = false, POST /plans and NativeClient.plan_actions give
\* explanation = goal and steps = [goal] for every goal and every tree text,
\* processing no tree, calling no agent and no provider, and leaving the
\* session, hence its stats, as it was.
C4_NoPlannerEchoesGoal ==
    [][(/\ req'.op = "plans"
        /\ \/ req'.via = "http" /\ req'.sid \in DOMAIN sessions
                                /\ ~sessions[req'.sid].planner
           \/ req'.via = "native" /\ ~native.planner) =>
          /\ resp'.status \in {0, 200}
          /\ ~resp'.raised
          /\ resp'.body = [explanation |-> req'.args.goal,
                           steps |-> <<req'.args.goal>>]
          /\ resp'.used = NoUse
          /\ sessions' = sessions
          /\ native' = native
          /\ calls' = calls]_vars

\* a session without planner was asked to plan on a tree that does not parse
C4_Witness ==
    /\ req.op = "plans"
    /\ req.via = "http"
    /\ req.sid \in DOMAIN sessions
    /\ ~sessions[req.sid].planner
    /\ req.args.accessibility_tree = "malformed"
    /\ resp.status = 200
    /\ resp.body.steps = <<req.args.goal>>

(***************************************************************************)
(* Properties of the token accounting.                                     *)
(***************************************************************************)
\* the usage of all six agents of a session, added up
SumOfAgents(s) ==
    AddUsage(s.usage["planner"],
    AddUsage(s.usage["actor"],
    AddUsage(s.usage["retriever"],
    AddUsage(s.usage["area"],
    AddUsage(s.usage["locator"], s.usage["changes_analyzer"])))))

\* C5: the three counters of stats.total of a session equal the sums of the
\* usage counters of all six agents of the session: planner, actor,
\* retriever, area, locator and changes analyzer.
C5_TotalIsSumOfSixAgents ==
    \A sid \in DOMAIN sessions :
        Session_stats(sessions[sid]).total = SumOfAgents(sessions[sid])

C7_StepsRewrittenBySameTree ==
    (req.op = "steps" /\ ~resp.raised /\ resp.status \in {0, 200}) =>
        LET tree     == ServerAccessibilityTree(req.args.accessibility_tree)
            produced == resp.used.produced IN
        /\ resp.used.trees = <<req.args.accessibility_tree>>
        /\ resp.used.agent = "actor"
        /\ resp.used.shown = to_xml(tree)
        /\ resp.used.call.chained => resp.used.call.prompt.xml = to_xml(tree)
        /\ resp.body.explanation = produced.explanation
        /\ Len(resp.body.actions) = Len(produced.tool_calls)
        /\ \A i \in DOMAIN produced.tool_calls :
              /\ resp.body.actions[i].tool = produced.tool_calls[i].tool
              /\ resp.body.actions[i].text = produced.tool_calls[i].text
              /\ resp.body.actions[i].id = tree.ids[produced.tool_calls[i].id]

\* two tool calls of the Actor came back in order with the raw ids of treeB
C7_Witness ==
    /\ req.op = "steps"
    /\ req.via = "http"
    /\ req.args.accessibility_tree = "treeB"
    /\ resp.status = 200
    /\ Len(resp.body.actions) = 2
    /\ resp.body.actions[1] = ToolCall("click", "btn-submit", "")
    /\ resp.body.actions[2] = ToolCall("type", "input-name", "Buy milk")

\* C8 as stated: every opaque id in an action the Actor produced for a
\* request is mapped by the tree of that request.
C8_ActorIdsAlwaysMapped ==
    (req.op = "steps" /\ resp.used.agent = "actor") =>
        AllMapped(ServerAccessibilityTree(req.args.accessibility_tree),
                  resp.used.produced.tool_calls)

\* C8, amended: the Actor may produce an opaque id the tree of the request
\* does not map; the request then answers 500 (the NativeClient raises) and
\* returns no action, so a request that returns has rewritten only ids the
\* tree maps.
C8_UnmappedIdFailsTheRequest ==
    (req.op = "steps" /\ resp.used.agent = "actor") =>
        LET tree   == ServerAccessibilityTree(req.args.accessibility_tree)
            mapped == AllMapped(tree, resp.used.produced.tool_calls) IN
        /\ ~mapped =>
              /\ resp.body = NoBody
              /\ IF req.via = "http" THEN resp.status = 500 ELSE resp.raised
        /\ (~resp.raised /\ resp.status \in {0, 200}) => mapped

\* the Actor clicked opaque id 3 on a tree of two elements
C8_Witness ==
    /\ req.op = "steps"
    /\ req.via = "http"
    /\ req.args.accessibility_tree = "treeA"
    /\ resp.used.produced.tool_calls = <<ToolCall("click", 3, "")>>
    /\ resp.status = 500

\* C9 as stated: equal URLs give "URL did not change. " before the analysis,
\* different URLs give "URL changed to <after>. ", two empty URLs give the
\* analysis alone.
C9_UrlSentenceAsStated ==
    (req.op = "changes" /\ ~resp.raised /\ resp.status \in {0, 200}) =>
        LET before_url == req.args.before.url
            after_url  == req.args.after.url
            X          == resp.used.produced.explanation IN
        resp.body.result =
            IF before_url = "" /\ after_url = "" THEN X
            ELSE IF before_url = after_url THEN "URL did not change. " \o X
            ELSE "URL changed to " \o after_url \o ". " \o X

\* C9, amended: the sentence about the URL is written only when both URLs
\* are non-empty: "URL did not change. " when they are equal, "URL changed
\* to <after>. " when they differ; when either URL is empty the result is
\* the analysis alone.
C9_UrlSentenceWhenBothGiven ==
    (req.op = "changes" /\ ~resp.raised /\ resp.status \in {0, 200}) =>
        LET before_url == req.args.before.url
            after_url  == req.args.after.url
            X          == resp.used.produced.explanation IN
        resp.body.result =
            IF before_url = "" \/ after_url = "" THEN X
            ELSE IF before_url = after_url THEN "URL did not change. " \o X
            ELSE "URL changed to " \o after_url \o ". " \o X

\* only the URL after the change was given: the result is the analysis alone
C9_Witness ==
    /\ req.op = "changes"
    /\ req.via = "http"
    /\ req.args.before.url = ""
    /\ req.args.after.url = "https://e.com/1"
    /\ resp.status = 200
    /\ resp.body.result = "A B"

\* C10: ActorAgent.invoke with a step that is empty or only whitespace
\* returns ("", []) without invoking the chain and leaves the usage of the
\* agent, and the session, as they were.
C10_BlankStepSkipsTheChain ==
    [][(/\ req'.op = "steps"
        /\ strip(req'.args.step) = <<>>
        /\ Parses(req'.args.accessibility_tree)
        /\ \/ req'.via = "native"
           \/ req'.via = "http" /\ req'.sid \in DOMAIN sessions) =>
          /\ resp'.used.agent = "actor"
          /\ ~resp'.used.call.chained
          /\ resp'.used.produced.explanation = ""
          /\ resp'.used.produced.tool_calls = <<>>
          /\ resp'.body = [explanation |-> "", actions |-> <<>>]
          /\ sessions' = sessions
          /\ native' = native
          /\ calls' = calls]_vars

\* a step of blanks was answered with no action, after the Actor had been
\* called with a real step
C10_Witness ==
    /\ req.op = "steps"
    /\ req.via = "http"
    /\ req.args.step = <<" ", "\t">>
    /\ resp.status = 200
    /\ resp.body.actions = <<>>
    /\ sessions[req.sid].usage["actor"].total_tokens = 3

(***************************************************************************)
(* Properties of the retry policy.                                         *)
(***************************************************************************)
\* C11 as stated: a chain invocation whose every attempt fails with a
\* transient provider error is retried 8 times after the first attempt
\* before the error propagates.
C11_EightRetriesAfterFirstAttempt ==
    (resp.used.call.chained /\ resp.used.call.error \in Transient) =>
        /\ resp.used.call.attempts = 1 + 8
        /\ Len(resp.used.call.slept) = 8

\* C11, amended: a chain invocation is attempted at most 8 times in all, the
\* first attempt and up to 7 retries; the delay before the first retry is
\* 1 second and doubles before each further retry (1, 2, 4, ..., 64); a
\* transient provider error propagates to the caller only after the 8th
\* attempt failed, and the request then answers 500 (the NativeClient
\* raises).
C11_EightAttemptsInAll ==
    resp.used.call.chained =>
        LET call == resp.used.call IN
        /\ call.attempts \in 1..8
        /\ Len(call.slept) = call.attempts - 1
        /\ \A i \in DOMAIN call.slept : call.slept[i] = 2 ^ (i - 1)
        /\ call.error \in Transient =>
              /\ call.attempts = 8
              /\ call.slept = <<1, 2, 4, 8, 16, 32, 64>>
              /\ resp.body = NoBody
              /\ IF req.via = "http" THEN resp.status = 500 ELSE resp.raised

\* every attempt of a call hit the rate limit: eight attempts were made and
\* the request answered 500
C11_Witness ==
    /\ req.op = "areas"
    /\ req.via = "http"
    /\ resp.used.call.error = "RateLimitError"
    /\ resp.used.call.attempts = 8
    /\ resp.used.call.slept = <<1, 2, 4, 8, 16, 32, 64>>
    /\ resp.status = 500

(***************************************************************************)
(* Properties of the error handling.                                       *)
(***************************************************************************)
PostRoutes ==
    {"plans", "steps", "statements", "areas", "add_example", "elements",
     "changes", "save_cache"}

\* the trees a request carries
TreesOf(request) ==
    IF request.op = "changes"
    THEN {request.args.before.accessibility_tree,
          request.args.after.accessibility_tree}
    ELSE IF request.op \in {"plans", "steps", "statements", "areas",
                            "elements"}
    THEN {request.args.accessibility_tree}
    ELSE {}

\* C12: a session-scoped POST route handling a request for a registered
\* session answers 200 or 500, never anything else; when a tree of the
\* request does not parse, the agent's invocation raises, or an id the
\* agent chose is not mapped, it answers 500 with the envelope {error,
\* detail} that the route's own except clause produces; the session stays
\* in the registry, so later requests for it are served the same way.
C12_DownstreamErrorIs500 ==
    [][(/\ req'.via = "http"
        /\ req'.op \in PostRoutes
        /\ req'.sid \in DOMAIN sessions) =>
          LET s       == sessions[req'.sid]
              unparsed == \E t \in TreesOf(req') : ~process_tree(s, t).ok
              raised  == resp'.used.call.error # ""
              unmapped ==
                  \/ /\ req'.op \in {"areas", "elements"}
                     /\ resp'.used.call.chained /\ ~raised
                     /\ ~Maps(ServerAccessibilityTree(
                                  req'.args.accessibility_tree),
                              resp'.used.produced.id)
                  \/ /\ req'.op = "steps"
                     /\ ~AllMapped(ServerAccessibilityTree(
                                       req'.args.accessibility_tree),
                                   resp'.used.produced.tool_calls) IN
          /\ resp'.status \in {200, 500}
          /\ (s.planner /\ unparsed) => resp'.status = 500
          /\ (raised \/ unmapped) => resp'.status = 500
          /\ resp'.status = 500 =>
                /\ resp'.error # ""
                /\ resp'.error # "Internal server error"
                /\ resp'.detail = "500"
                /\ resp'.body = NoBody
          /\ DOMAIN sessions' = DOMAIN sessions
          /\ order' = order]_vars

\* a request of a session that had been served before failed on a tree that
\* does not parse, and the session is still registered
C12_Witness ==
    /\ req.via = "http"
    /\ req.op = "areas"
    /\ req.args.accessibility_tree = "malformed"
    /\ resp.status = 500
    /\ resp.detail = "500"
    /\ req.sid \in DOMAIN sessions
    /\ sessions[req.sid].usage["area"].total_tokens > 0

\* C13: a request whose body is no JSON object or lacks a field its route's
\* request model requires is answered 422 before the handler runs: no
\* session is created, no tree is processed, no agent is invoked, and the
\* registry and every session (usage, examples, cache) stay as they were;
\* the answer is 422 also when the session id of the path is unknown.
C13_MalformedBodyIs422 ==
    [][(/\ req'.via = "http"
        /\ req'.op \in BodyRoutes \cup {"create_session"}
        /\ ~(RequiredFields(req'.op) \subseteq DOMAIN req'.args)) =>
          /\ resp'.status = 422
          /\ resp'.used = NoUse
          /\ sessions' = sessions
          /\ order' = order
          /\ created' = created
          /\ calls' = calls]_vars

\* a plan request without a tree for a session id that is not registered,
\* next to a registered one, was answered 422
C13_Witness ==
    /\ req.via = "http"
    /\ req.op = "plans"
    /\ DOMAIN req.args = {"goal"}
    /\ req.sid \notin DOMAIN sessions
    /\ DOMAIN sessions # {}
    /\ resp.status = 422

(***************************************************************************)
(* Properties of the learned examples.                                     *)
(***************************************************************************)
\* C14: DELETE /examples for a registered session answers success in every
\* state, also when the list of examples is empty already, and leaves the
\* list empty and the rest of the session as it was; applied once more to
\* the state it left, it succeeds again and changes nothing.  The same holds
\* of NativeClient.clear_examples.
C14_ClearExamplesIdempotent ==
    [][(/\ req'.op = "clear_examples"
        /\ \/ req'.via = "native"
           \/ req'.via = "http" /\ req'.sid \in DOMAIN sessions) =>
          LET before == IF req'.via = "native" THEN native
                        ELSE sessions[req'.sid]
              once   == IF req'.via = "native" THEN native'
                        ELSE sessions'[req'.sid]
              again  == clear_examples_found(once) IN
          /\ ~resp'.raised
          /\ req'.via = "http" =>
                (resp'.status = 200 /\ resp'.body.success = TRUE)
          /\ once = [before EXCEPT !.examples = <<>>]
          /\ again.session = once
          /\ again.resp.status = 200
          /\ again.resp.body.success = TRUE
          /\ NativeClient_clear_examples_call(once).session = once
          /\ DOMAIN sessions' = DOMAIN sessions]_vars

\* the examples of a session were cleared while it had none
C14_Witness ==
    /\ req.op = "clear_examples"
    /\ req.via = "http"
    /\ req.sid \in DOMAIN sessions
    /\ resp.status = 200
    /\ resp.body.success = TRUE
    /\ sessions[req.sid].examples = <<>>
    /\ native.examples # <<>>

(***************************************************************************)
(* Properties of the chat model of a session.                              *)
(***************************************************************************)
\* C15: in every reachable state the handle the agents of a live session
\* invoke is bound to that session's own cache, and no two live sessions
\* have their calls served by the same cache, whether the sessions were
\* created with or without a chat model of the caller.
C15_HandleBoundToOwnCache ==
    LET served(k) == IF sessions[k].llm.cache = <<>> THEN k
                     ELSE sessions[k].llm.cache[1] IN
    /\ \A k \in DOMAIN sessions : served(k) = k
    /\ \A j, k \in DOMAIN sessions : j # k => served(j) # served(k)

C17_FalseValueFailsOnlyInClient ==
    [][/\ (req'.op = "statements" /\ req'.via = "http"
              /\ req'.sid \in DOMAIN sessions) =>
            LET returned == resp'.used.call.chained
                                /\ resp'.used.call.error = "" IN
            /\ returned =>
                  /\ resp'.status = 200
                  /\ resp'.body.result = retrieved_value(
                        sessions'[req'.sid].cache
                            .entries[resp'.used.call.prompt].out.value)
            /\ ~returned => resp'.status = 500
       /\ req'.op \in {"check", "handle_check"} =>
            LET falsy == /\ resp'.used.call.chained
                         /\ resp'.used.call.error = ""
                         /\ loosely_typecast(resp'.used.produced.value)
                                \in req'.args.falsy IN
            IF req'.op = "check"
            THEN /\ (resp'.raised /\ resp'.error = "AssertionError") <=> falsy
                 /\ falsy => resp'.detail = resp'.used.produced.explanation
            ELSE /\ resp'.error # "AssertionError"
                 /\ falsy <=>
                      (~resp'.raised /\ resp'.body.text =
                          "Check failed! " \o resp'.used.produced.explanation)
      ]_vars

\* the server answered 200 with "false" in result, and the client's check
\* of a value "false", which is falsy, raised AssertionError
C17_Witness ==
    /\ req.op = "check"
    /\ resp.raised
    /\ resp.error = "AssertionError"
    /\ resp.used.produced.value = [is_list |-> FALSE, items |-> << <<"false">> >>]
    /\ \E key \in DOMAIN sessions[1].cache.entries :
          sessions[1].cache.entries[key].out.value = <<"false">>

(***************************************************************************)
(* Properties of areas and elements.                                       *)
(***************************************************************************)
\* C18: for a tree that was processed and an opaque id the Area agent chose
\* that the tree maps, POST /areas answers 200 with id the raw id the tree
\* maps the opaque id to, whether that raw id is an integer or a string.
C18_AreaIdIsRawId ==
    [][(/\ req'.op = "areas" /\ req'.via = "http"
        /\ req'.sid \in DOMAIN sessions
        /\ resp'.used.call.chained
        /\ resp'.used.call.error = ""
        /\ Maps(ServerAccessibilityTree(req'.args.accessibility_tree),
                resp'.used.produced.id)) =>
          /\ resp'.status = 200
          /\ resp'.body.id =
                get_raw_id(ServerAccessibilityTree(
                               req'.args.accessibility_tree),
                           resp'.used.produced.id)]_vars

\* C19: POST /elements that returns has one entry for the one element the
\* Locator produced, with the Locator's explanation and, as id, the raw id
\* the tree of this request maps the Locator's opaque id to; it returns
\* whenever the tree was processed, the Locator returned and the tree maps
\* the id.  NativeClient.find_element returns that one entry.
C19_ElementsCarryRawIdsOfOwnTree ==
    [][(/\ req'.op = "elements"
        /\ \/ req'.via = "native"
           \/ req'.via = "http" /\ req'.sid \in DOMAIN sessions) =>
          LET tree     == ServerAccessibilityTree(
                              req'.args.accessibility_tree)
              produced == resp'.used.produced
              entry    == [id |-> get_raw_id(tree, produced.id),
                           explanation |-> produced.explanation]
              returned == IF req'.via = "http" THEN resp'.status = 200
                          ELSE ~resp'.raised IN
          /\ returned <=> /\ resp'.used.call.chained
                          /\ resp'.used.call.error = ""
                          /\ Maps(tree, produced.id)
          /\ returned =>
                IF req'.via = "http"
                THEN resp'.body.elements = <<entry>>
                ELSE resp'.body = entry]_vars

\* an element of the tree with integer raw ids was found after one of the
\* tree with string raw ids, each with the raw id of its own tree
C19_Witness ==
    /\ req.op = "elements"
    /\ req.via = "http"
    /\ resp.status = 200
    /\ req.args.accessibility_tree = "treeN"
    /\ resp.body.elements = <<[id |-> "16", explanation |-> "chosen"]>>
    /\ \E key \in DOMAIN sessions[req.sid].cache.entries :
          key.xml = to_xml(ServerAccessibilityTree("treeA"))

(***************************************************************************)
(* Properties of the platform of a session.                                *)
(***************************************************************************)
\* C20: POST /v1/sessions creates a session only for the platforms
\* chromium, xcuitest and uiautomator2 and rejects every other tag with 422
\* without creating anything; for a registered session that holds another
\* tag, process_tree raises, and every request of a route that processes
\* its tree answers 500 naming the unknown platform, with no agent called
\* (POST /plans of such a session without planner returns before it
\* processes the tree).
C20_UnknownPlatformIs500 ==
    [][/\ (req'.op = "create_session" /\ req'.via = "http") =>
            /\ resp'.status = 200 =>
                  /\ req'.args.platform \in Platforms
                  /\ sessions'[resp'.body.session_id].platform
                        = req'.args.platform
            /\ req'.args.platform \notin Platforms =>
                  /\ resp'.status = 422
                  /\ sessions' = sessions
       /\ (/\ req'.via = "http"
           /\ req'.op \in {"plans", "steps", "statements", "areas",
                           "elements", "changes"}
           /\ req'.sid \in DOMAIN sessions
           /\ sessions[req'.sid].platform \notin Platforms
           /\ req'.op = "plans" => sessions[req'.sid].planner) =>
            /\ \A t \in TreesOf(req') : ~process_tree(sessions[req'.sid], t).ok
            /\ resp'.status = 500
            /\ resp'.detail = "500"
            /\ ~resp'.used.call.chained
            /\ sessions' = sessions]_vars

\* a request for a session that was created in process for a platform the
\* server does not know was answered 500, next to a session created over
\* HTTP
C20_Witness ==
    /\ req.via = "http"
    /\ req.op = "steps"
    /\ req.sid \in DOMAIN sessions
    /\ sessions[req.sid].platform = "windows"
    /\ resp.status = 500
    /\ \E k \in DOMAIN sessions : sessions[k].platform = "xcuitest"

(***************************************************************************)
(* Properties of the token accounting.                                     *)
(***************************************************************************)
\* no agent of the session has had usage returned to it
NoUsageReturned(s) == \A a \in Agents : s.usage[a] = ZeroUsage

\* C21: a session that was just created reports 0 for every counter of
\* stats.total and of stats.cache, and a session none of whose agent calls
\* has returned usage so far still reports 0 for all of them after any
\* request that is not an agent call of that session returning usage; GET
\* /stats answers those zeros.
C21_FreshSessionCountsZero ==
    [][/\ \A sid \in DOMAIN sessions' :
            (/\ sid \in DOMAIN sessions => NoUsageReturned(sessions[sid])
             /\ ~(/\ req'.via = "http"
                  /\ req'.sid = sid
                  /\ resp'.used.call.usage # ZeroUsage)) =>
                /\ Session_stats(sessions'[sid]).total = ZeroUsage
                /\ Session_stats(sessions'[sid]).cache = ZeroUsage
                /\ NoUsageReturned(sessions'[sid])
       /\ (/\ req'.op = "stats" /\ req'.via = "http"
           /\ resp'.status = 200
           /\ NoUsageReturned(sessions[req'.sid])) =>
                /\ resp'.body.total = ZeroUsage
                /\ resp'.body.cache = ZeroUsage]_vars

\* GET /stats of a session answered zeros after agent calls were made that
\* returned no usage to that session
C21_Witness ==
    /\ req.op = "stats" /\ req.via = "http"
    /\ resp.status = 200
    /\ resp.body.total = ZeroUsage
    /\ resp.body.cache = ZeroUsage
    /\ calls > 0
    /\ Cardinality(DOMAIN sessions) = 2

Reported(via, sid, a) ==
    IF /\ req'.via = via /\ req'.sid = sid
       /\ resp'.used.agent = a
       /\ resp'.used.call.chained
       /\ resp'.used.call.error = ""
    THEN resp'.used.call.usage
    ELSE ZeroUsage

\* C23: in every step each counter of each agent of each session grows by
\* the usage the step's chain invocation of that agent reported when it
\* returned, and by nothing otherwise, so the counters never decrease and
\* equal the sum of the usage of the invocations that returned: an
\* invocation that returns after failed attempts adds the usage of its
\* answer once, an invocation that raises adds nothing, an answer served
\* from the cache reports none, and the usage stays added when the request
\* answers 500 after the invocation returned.
C23_CountersSumReturnedUsage ==
    [][/\ \A sid \in DOMAIN sessions, a \in Agents :
            /\ sessions'[sid].usage[a] =
                  AddUsage(sessions[sid].usage[a], Reported("http", sid, a))
            /\ \A c \in Counters :
                  sessions'[sid].usage[a][c] >= sessions[sid].usage[a][c]
       /\ \A a \in Agents :
            /\ native'.usage[a] =
                  AddUsage(native.usage[a], Reported("native", 0, a))
            /\ \A c \in Counters : native'.usage[a][c] >= native.usage[a][c]
       /\ resp'.used.call.chained =>
            LET call == resp'.used.call IN
            /\ (call.error # "" \/ call.hit) => call.usage = ZeroUsage
            /\ (call.error = "" /\ ~call.hit) => call.usage \in UsageMetadata
       ]_vars

\* an invocation returned after two failed attempts, its usage was added to
\* the agent's once, and the request then answered 500
C23_Witness ==
    /\ req.via = "http" /\ req.op = "steps"
    /\ resp.status = 500
    /\ resp.used.call.attempts = 3
    /\ resp.used.call.error = ""
    /\ resp.used.call.usage.total_tokens = 3
    /\ sessions[req.sid].usage["actor"].total_tokens = 6

(***************************************************************************)
(* Properties of the Planner's examples.                                   *)
(***************************************************************************)
\* the examples list of session s after the step, given the list before it:
\* one more at the end after an add that succeeded, none after a clear that
\* succeeded, and the same list after anything else
ExamplesAfter(before, mine) ==
    IF mine /\ req'.op = "add_example" /\ ~resp'.raised
            /\ resp'.status \in {0, 200}
    THEN Append(before,
                [goal |-> req'.args.goal,
                 accessibility_tree |-> "",
                 actions |->
                    IF current \in UNSTRUCTURED_OUTPUT_MODELS
                    THEN [is_list |-> FALSE,
                          items |-> <<join_texts(req'.args.actions,
                                                 LIST_SEPARATOR)>>]
                    ELSE [is_list |-> TRUE, items |-> req'.args.actions]])
    ELSE IF mine /\ req'.op = "clear_examples" /\ ~resp'.raised
                 /\ resp'.status \in {0, 200}
    THEN <<>>
    ELSE before

\* C24: the Planner's examples list of a session is empty when the session
\* is created; an add appends the example, with the goal and the actions of
\* the request, after the examples the list holds; a clear empties the
\* list; nothing else changes it.  So the list holds the examples added
\* since the last clear, or since creation, in the order they were added,
\* and an add after a clear starts a new list.  Both succeed on every
\* registered session.
C24_ExamplesAreThoseAddedSinceClear ==
    [][/\ \A sid \in DOMAIN sessions :
            sessions'[sid].examples =
                ExamplesAfter(sessions[sid].examples,
                              req'.via = "http" /\ req'.sid = sid)
       /\ native'.examples = ExamplesAfter(native.examples, req'.via = "native")
       /\ (/\ req'.via = "http"
           /\ req'.op \in {"add_example", "clear_examples"}
           /\ req'.sid \in DOMAIN sessions) => resp'.status = 200]_vars

\* a session holds two examples with different goals and actions, the one
\* added last at the end
C24_Witness ==
    /\ req.via = "http" /\ req.op = "add_example"
    /\ resp.status = 200
    /\ Len(sessions[req.sid].examples) = 2
    /\ sessions[req.sid].examples[2].goal = req.args.goal
    /\ sessions[req.sid].examples[1].goal # req.args.goal
    /\ sessions[req.sid].examples[1].actions # sessions[req.sid].examples[2].actions

(***************************************************************************)
(* Properties of do.                                                       *)
(***************************************************************************)
\* the calls of the client and the tool calls of the last do call, without
\* the reads of the driver's tree
Acted == SelectSeq(trace, LAMBDA e : e.kind # "read")

\* the events of the attempt that starts with the plan at position i of a
\* sequence of events, after that plan
Attempt_of(events, i) ==
    LET later == {j \in DOMAIN events : j > i /\ events[j].kind = "plan"}
        next == IF later = {} THEN Len(events) + 1
                ELSE CHOOSE j \in later : \A k \in later : j <= k IN
    SubSeq(events, i + 1, next - 1)

\* an event as the kind of what was done, the step it was done for and the
\* tool calls it returned or executed
Shape(e) == [kind |-> e.kind, step |-> e.step, calls |-> e.calls]

\* the Actor called for each step in turn, each call followed by the tool
\* calls it returned, one by one in the order it returned them
RECURSIVE Unfold(_)
Unfold(acts) ==
    IF acts = <<>> THEN <<>>
    ELSE <<Shape(Head(acts))>>
         \o [k \in DOMAIN Head(acts).calls |->
                [kind |-> "tool", step |-> <<>>,
                 calls |-> <<Head(acts).calls[k]>>]]
         \o Unfold(Tail(acts))

\* C25: in every attempt of a do call, of Alumni and of Area, what is done
\* after the plan is: the Actor is called for the steps of the plan in the
\* order the planner returned them, and after each call the tool calls it
\* returned are executed on the driver in the order it returned them,
\* before the Actor is called for the next step; a call that raises ends
\* the attempt.  The DoResult of a do call that returns lists the steps of
\* the plan of its last attempt in that order, each with the tool calls
\* executed for it.
C25_StepsActedInPlannerOrder ==
    req.op = "do" =>
        /\ Acted # <<>>
        /\ Acted[1].kind = "plan"
        /\ \A i \in DOMAIN Acted :
              Acted[i].kind = "plan" =>
                LET attempt == Attempt_of(Acted, i)
                    acts == SelectSeq(attempt, LAMBDA e : e.kind = "act")
                    last == i + Len(attempt) = Len(Acted) IN
                /\ [k \in DOMAIN attempt |-> Shape(attempt[k])] = Unfold(acts)
                /\ Len(acts) <= Len(Acted[i].steps)
                /\ \A j \in DOMAIN acts :
                      /\ acts[j].step = Acted[i].steps[j]
                      /\ ~acts[j].ok => j = Len(acts)
                /\ ~Acted[i].ok => attempt = <<>>
                /\ ~last => ~Acted[i + Len(attempt)].ok
                /\ (last /\ ~resp.raised) =>
                      /\ Len(acts) = Len(Acted[i].steps)
                      /\ resp.body.steps =
                            [j \in DOMAIN acts |->
                                [name |-> Acted[i].steps[j],
                                 tools |-> acts[j].calls]]
                /\ (last /\ resp.raised) => ~Acted[Len(Acted)].ok

\* a do call returned a plan of two steps, the first with two tool calls
C25_Witness ==
    /\ req.op = "do"
    /\ ~resp.raised
    /\ Len(resp.body.steps) = 2
    /\ resp.body.steps[1].name = <<"g", "o">>
    /\ Len(resp.body.steps[1].tools) = 2
    /\ resp.body.steps[2].name = <<"u", "p">>
    /\ Len(resp.body.steps[2].tools) = 1
    /\ req.args.area # None

\* C26: in every attempt of a do call, of Alumni and of Area, the tree sent
\* to the Actor for a step after the first was read from the driver after
\* the tool calls of the step before it were executed, and is the tree of
\* the page they left.
C26_TreeReadAgainForEveryStep ==
    req.op = "do" =>
        \A p \in DOMAIN trace :
            (/\ trace[p].kind = "act"
             /\ \E q \in 1..(p - 1) :
                    /\ trace[q].kind = "act"
                    /\ \A k \in q..p : trace[k].kind # "plan") =>
                /\ trace[p - 1].kind = "read"
                /\ trace[p - 1].tree = trace[p].tree
                /\ \A t \in 1..(p - 1) :
                      (/\ trace[t].kind = "tool"
                       /\ \A k \in (t + 1)..(p - 1) : trace[k].kind = "read") =>
                          trace[p].tree = trace[t].tree

(***************************************************************************)
(* Properties of the retry loop against the timeouts of the HTTP client.   *)
(***************************************************************************)
\* the request called an agent whose retry loop was exhausted: every one of
\* its attempts failed with a transient error
Exhausted ==
    /\ req.via = "http"
    /\ req.op \in {"plans", "steps", "statements", "areas", "elements"}
    /\ resp.used.call.chained
    /\ resp.used.call.error \in Transient
    /\ resp.used.call.attempts = tries

\* C28: the retry loop of an agent invocation is bounded by the timeout of
\* the endpoint: the delays slept by a fully exhausted retry loop add up to
\* no more than the timeout of the endpoint that triggered it, 120 seconds
\* for plans, steps and statements and 60 seconds for areas and elements.
C28_BackoffWithinEndpointTimeout ==
    Exhausted =>
        time_slept(resp.used.call.slept) <= HttpClient_timeout(req.op)

\* C29: when the Area or Locator agent returns an opaque id that the tree
\* of the request does not map, the /areas or /elements request answers 500
\* with an error envelope and no body, so no id, and the session stays
\* registered.
C29_UnmappedIdAnswers500 ==
    [][(/\ req'.op \in {"areas", "elements"} /\ req'.via = "http"
        /\ req'.sid \in DOMAIN sessions
        /\ resp'.used.call.chained
        /\ resp'.used.call.error = ""
        /\ ~Maps(ServerAccessibilityTree(req'.args.accessibility_tree),
                 resp'.used.produced.id)) =>
          /\ resp'.status = 500
          /\ resp'.detail = "500"
          /\ resp'.error \in {"Failed to choose accessibility area: KeyError",
                              "Failed to find element: KeyError"}
          /\ resp'.body = NoBody
          /\ DOMAIN sessions' = DOMAIN sessions
          /\ created' = created /\ deleted' = deleted]_vars

\* the Area agent returned an id the tree does not map: the request
\* answered 500 and the session, which counted the call, is still there
C29_Witness ==
    /\ req.op = "areas"
    /\ req.via = "http"
    /\ resp.used.call.chained
    /\ resp.used.call.error = ""
    /\ resp.used.produced.id = 3
    /\ resp.status = 500
    /\ req.sid \in DOMAIN sessions
    /\ sessions[req.sid].usage["area"].total_tokens > 0

(***************************************************************************)
(* Properties of the statistics of the registry.                           *)
(***************************************************************************)
\* the sum of one counter of one part of Session.stats over the sessions of
\* a registry
RECURSIVE SumOver(_, _, _, _)
SumOver(registry, ids, key, counter) ==
    IF ids = {} THEN 0
    ELSE LET sid == CHOOSE k \in ids : TRUE IN
         Session_stats(registry[sid])[key][counter]
             + SumOver(registry, ids \ {sid}, key, counter)

\* C30: get_total_stats returns, for each of total and cache and each
\* counter, the sum of that counter of Session.stats over exactly the
\* sessions in the registry; the usage of a deleted session is not in it:
\* deleting a session takes its counters out of the aggregate.
C30_TotalStatsSumRegisteredSessions ==
    [][/\ req'.op = "total_stats" =>
            /\ DOMAIN resp'.body = {"total", "cache"}
            /\ \A key \in {"total", "cache"}, counter \in Counters :
                  resp'.body[key][counter] =
                      SumOver(sessions', DOMAIN sessions', key, counter)
       /\ (req'.op = "delete_session" /\ resp'.status = 204) =>
            \A key \in {"total", "cache"}, counter \in Counters :
                SumOver(sessions', DOMAIN sessions', key, counter) =
                    SumOver(sessions, DOMAIN sessions, key, counter)
                    - Session_stats(sessions[req'.sid])[key][counter]]_vars

\* two agent calls were made, one in each of two sessions, one session was
\* deleted, and the aggregate holds the tokens of the other call only
C30_Witness ==
    /\ req.op = "total_stats"
    /\ calls = 2
    /\ deleted # {}
    /\ DOMAIN sessions # {}
    /\ resp.body.total.total_tokens = 3
    /\ resp.body.cache.total_tokens = 0

(***************************************************************************)
(* Properties of concurrent requests for one session.                      *)
(***************************************************************************)
\* the session after the handlers of the tasks ran one after the other
RECURSIVE Serially(_, _)
Serially(s, tasks) ==
    IF tasks = <<>> THEN s
    ELSE Serially(Handled(s, Head(tasks)).session, Tail(tasks))

\* the session has the usage counters, the examples and the cache that
\* the finished requests produce in the order `p`
SameAsSerial(p) ==
    sessions[1] =
        Serially(Session("chromium", TRUE),
                 [i \in DOMAIN loop.done |-> loop.done[p[i]]])

\* C27: concurrent requests for the same session serialize on its mutable
\* state: however the requests for one session arrive and are taken up, no
\* update of an agent's usage counters or of the Planner's examples is
\* lost: the counters and the examples (and the cache) are those that some
\* serial order of the same requests produces.
C27_SameAsSomeSerialOrder ==
    loop.done # <<>> =>
        \E p \in Permutations(DOMAIN loop.done) : SameAsSerial(p)

\* three requests were in flight at once and were finished in another
\* order than they arrived; both agent calls are counted and the example
\* added is there
C27_Witness ==
    /\ Len(loop.done) = 3
    /\ loop.done[1].n = 3
    /\ loop.done[3].n = 1
    /\ sessions[1].usage["area"].total_tokens = 6
    /\ sessions[1].examples # <<>>

(***************************************************************************)
(* Properties of the steps the Planner returns.                            *)
(***************************************************************************)
\* the Planner was called for the request and returned
Planned ==
    /\ req.op = "plans"
    /\ resp.used.agent = "planner"
    /\ resp.used.call.chained
    /\ resp.used.call.error = ""

\* C31: the steps PlannerAgent.invoke returns never contain an empty or
\* whitespace-only step, with structured and with unstructured output; with
\* unstructured output they contain no item equal to NOOP in any letter
\* case and the explanation is the empty string.
C31_PlannerStepsNeverBlank ==
    Planned =>
        /\ \A i \in DOMAIN resp.used.produced.steps :
              strip(resp.used.produced.steps[i]) # <<>>
        /\ current \in UNSTRUCTURED_OUTPUT_MODELS =>
              /\ \A i \in DOMAIN resp.used.produced.steps :
                    upper(resp.used.produced.steps[i])
                        # <<"N", "O", "O", "P">>
              /\ resp.used.produced.explanation = ""

(***************************************************************************)
(* Properties of a session creation that fails.                            *)
(***************************************************************************)
\* C32: when creating a session fails at any stage (invalid provider,
\* conversion of the tool schemas, construction of the LLM handle or of the
\* agents), POST /v1/sessions answers 500 and the registry is exactly what
\* it was: no id is added, and what can be looked up and listed is the
\* same; a request that answers 200 added exactly the id it returns.
C32_FailedCreateLeavesRegistry ==
    [][(/\ req'.op = "create_session" /\ req'.via = "http"
        /\ validates("create_session", req'.args)) =>
          /\ resp'.status \in {200, 500}
          /\ ~ValidProvider(req'.args.provider) => resp'.status = 500
          /\ resp'.status = 500 =>
                /\ resp'.body = NoBody
                /\ sessions' = sessions
                /\ order' = order
                /\ created' = created
          /\ resp'.status = 200 =>
                /\ resp'.body.session_id \notin DOMAIN sessions
                /\ DOMAIN sessions' =
                      DOMAIN sessions \cup {resp'.body.session_id}]_vars

\* the construction of the LLM handle failed while a session with an
\* example was registered: the request answered 500 and the registry still
\* holds that session alone
C32_Witness ==
    /\ req.op = "create_session"
    /\ req.via = "http"
    /\ req.args.provider = "anthropic"
    /\ resp.status = 500
    /\ resp.error = "Failed to create session: cannot create: create_llm"
    /\ order = <<1>>
    /\ sessions[1].examples # <<>>

(***************************************************************************)
(* Properties of the isolation of sessions.                                *)
(***************************************************************************)
\* C33: sessions are isolated: a request for one session (an agent call,
\* add-example, clear-examples, cache save or discard, delete), and a
\* request for none, leaves every other registered session registered,
\* with its usage counters, examples, planner flag, platform and model as
\* they were.
C33_OtherSessionsUntouched ==
    [][\A k \in DOMAIN sessions :
          req'.sid # k =>
             /\ k \in DOMAIN sessions'
             /\ sessions'[k].usage = sessions[k].usage
             /\ sessions'[k].examples = sessions[k].examples
             /\ sessions'[k].planner = sessions[k].planner
             /\ sessions'[k].platform = sessions[k].platform
             /\ sessions'[k].model = sessions[k].model]_vars

\* an example was added to session 1 while session 2, of another provider
\* and without planner, had counted an agent call and held no example
C33_Witness ==
    /\ req.op = "add_example"
    /\ req.sid = 1
    /\ resp.status = 200
    /\ DOMAIN sessions = {1, 2}
    /\ sessions[1].examples # <<>>
    /\ sessions[2].examples = <<>>
    /\ sessions[2].usage["area"].total_tokens = 3
    /\ sessions[1].usage["area"].total_tokens = 0
    /\ sessions[1].model # sessions[2].model
    /\ sessions[1].planner # sessions[2].planner

(***************************************************************************)
(* Properties of the lists the Retriever returns.                          *)
(***************************************************************************)
\* the Retriever was called for the request and returned a list
RetrievedList ==
    /\ req.op = "statements"
    /\ resp.used.agent = "retriever"
    /\ resp.used.call.chained
    /\ resp.used.call.error = ""
    /\ resp.used.produced.value.is_list

\* C34: whenever RetrieverAgent.invoke returns a list, the list has at
\* least one element and none of its elements is the empty string, for
\* every value of the model, with repeated separators and with whitespace
\* between separators.
C34_ListsHaveNoEmptyItem ==
    RetrievedList =>
        /\ Len(resp.used.produced.value.items) >= 1
        /\ \A i \in DOMAIN resp.used.produced.value.items :
              resp.used.produced.value.items[i] # <<>>

(***************************************************************************)
(* Properties of the Planner's output mode.                                *)
(***************************************************************************)
\* C35: the output mode of a session's Planner is determined by the
\* provider of that session's own model: a session of a structured-output
\* provider stores its examples as lists and returns the structured
\* explanation of a plan, a session of an unstructured-output provider
\* stores its examples as joined strings and returns plans parsed from
\* <SEP>-delimited text (explanation ""); the modes agree during the whole
\* life of the session.
C35_ModeFollowsSessionModel ==
    /\ \A k \in DOMAIN sessions : \A i \in DOMAIN sessions[k].examples :
          sessions[k].examples[i].actions.is_list
              = (sessions[k].model \notin UNSTRUCTURED_OUTPUT_MODELS)
    /\ (Planned /\ req.sid \in DOMAIN sessions) =>
          ((resp.used.produced.explanation = "")
              = (sessions[req.sid].model \in UNSTRUCTURED_OUTPUT_MODELS))

(***************************************************************************)
(* Properties of the attempts of the library's methods.                    *)
(***************************************************************************)
\* the positions of Acted where an attempt of the last call of the library
\* starts: the plan of do, and the call of the client of check, get, find
Starts == {i \in DOMAIN Acted : Acted[i].kind \in {"plan", "check", "get", "find"}}

\* C36: each of Alumni.do, check, get and find makes at least one and at
\* most RETRIES attempts.  An attempt is made after the first only when the
\* attempt before it raised, whatever the exception (the AssertionError of
\* a falsy check, a failure in the middle of do), and every attempt that
\* raised and was not the last allowed is followed by a complete new
\* attempt: do reads the tree the tool calls of the failed attempt left
\* (nothing is rolled back), plans again and acts from the first step of
\* the new plan.  The call raises exactly when its last attempt raised,
\* then all RETRIES attempts were made and the exception is that of the
\* last attempt.
C36_AtMostRetriesAttempts ==
    req.op \in {"do", "call"} =>
        /\ Acted # <<>>
        /\ 1 \in Starts
        /\ Cardinality(Starts) <= RETRIES
        /\ \A i \in DOMAIN Acted :
              /\ (i \in Starts /\ i > 1) => ~Acted[i - 1].ok
              /\ (~Acted[i].ok /\ i < Len(Acted)) => (i + 1) \in Starts
              /\ (~Acted[i].ok /\ i = Len(Acted) /\ i \notin Starts) =>
                    Cardinality(Starts) = RETRIES
        /\ resp.raised = ~Acted[Len(Acted)].ok
        /\ resp.raised =>
              /\ Cardinality(Starts) = RETRIES
              /\ resp.error = Acted[Len(Acted)].error
        /\ \A p \in DOMAIN trace :
              (trace[p].kind = "read" /\ p < Len(trace)
                  /\ trace[p + 1].kind = "plan") =>
                /\ \A t \in 1..(p - 1) :
                      (trace[t].kind = "tool"
                          /\ \A k \in (t + 1)..(p - 1) :
                                trace[k].kind # "tool") =>
                            trace[p].tree = trace[t].tree
                /\ \A a \in (p + 2)..Len(trace) :
                      (trace[a].kind = "act"
                          /\ \A k \in (p + 2)..(a - 1) :
                                trace[k].kind \notin {"act", "plan"}) =>
                            /\ trace[a].step = trace[p + 1].steps[1]
                            /\ trace[a].tree = trace[p].tree

\* a do call whose first attempt executed the tool call of its first step
\* and failed at its second step, and whose second attempt planned again,
\* on the page the tool call left, and failed: the call raised
C36_Witness ==
    /\ req.op = "do"
    /\ resp.raised
    /\ Cardinality(Starts) = RETRIES
    /\ \E t \in DOMAIN trace :
          /\ trace[t].kind = "tool"
          /\ \E q \in (t + 1)..Len(trace) :
                /\ trace[q].kind = "plan"
                /\ trace[q].tree = trace[t].tree
                /\ trace[q].tree # trace[1].tree

(***************************************************************************)
(* Properties of the two clients.                                          *)
(***************************************************************************)
\* the method of HttpClient whose route answered h and the method of
\* NativeClient that ended as n agree: both raise or both return, what they
\* return is the same (add_example and clear_examples are called for their
\* effect), and they leave the session with the same usage and examples
Agree(op, h, n) ==
    /\ HttpClient_returns(op, h).raised = n.resp.raised
    /\ (~n.resp.raised /\ op # "add_example") =>
          HttpClient_returns(op, h).value = n.resp.body
    /\ h.session.usage = n.session.usage
    /\ h.session.examples = n.session.examples

\* the sessions of the server and the session of the NativeClient
Held == {sessions[sid] : sid \in DOMAIN sessions} \cup {native}

\* C37: NativeClient and the HTTP control plane are equivalent: on the same
\* session, each of plan_actions, execute_action, retrieve, find_area,
\* find_element, analyze_changes, add_example and clear_examples with the
\* same inputs and the same agent output gives the same result and the same
\* usage and examples of the session through HttpClient against the route
\* as through NativeClient.
C37_ClientsEquivalent ==
    \A s \in Held :
        /\ \A tree \in EquivTrees, fresh \in One(PlannerOutputs(current)) :
              Agree("plans",
                  plan_actions_found(s, current, <<"g">>, tree, fresh),
                  NativeClient_plan_actions_call(s, current, <<"g">>, tree,
                                                 fresh))
        /\ \A tree \in EquivTrees, fresh \in One(ActorOutputs) :
              Agree("steps",
                  plan_step_actions_found(s, <<"g">>, <<"g", "o">>, tree,
                                          fresh),
                  NativeClient_execute_action_call(s, <<"g">>, <<"g", "o">>,
                                                   tree, fresh))
        /\ \A tree \in EquivTrees, fresh \in One(RetrieverOutputs) :
              Agree("statements",
                  execute_statement_found(s, <<"g">>, tree, "title", "", "",
                                          fresh),
                  NativeClient_retrieve_call(s, <<"g">>, tree, "title", "",
                                             "", fresh))
        /\ \A tree \in EquivTrees, fresh \in One(IdOutputs) :
              Agree("areas",
                  choose_area_found(s, <<"g">>, tree, fresh),
                  NativeClient_find_area_call(s, <<"g">>, tree, fresh))
        /\ \A tree \in EquivTrees, fresh \in One(IdOutputs) :
              Agree("elements",
                  find_element_found(s, <<"g">>, tree, fresh),
                  NativeClient_find_element_call(s, <<"g">>, tree, fresh))
        /\ \A tree \in EquivTrees, fresh \in One(ChangesOutputs) :
              Agree("changes",
                  analyze_changes_found(s, "treeA", "", tree, "", fresh),
                  NativeClient_analyze_changes_call(s, "treeA", "", tree, "",
                                                    fresh))
        /\ \A actions \in Examples :
              Agree("add_example",
                  add_example_found(s, current, <<"g">>, actions),
                  NativeClient_add_example_call(s, current, <<"g">>, actions))
        /\ Agree("clear_examples", clear_examples_found(s),
                 NativeClient_clear_examples_call(s))

============================================================================
